---- MODULE Spec2Model ----
(***************************************************************************)
(* A model of the TritonCAN bridge: the CanBusService channel service of   *)
(* td_can_bridges/service.py (registries, start, shutdown, send and the    *)
(* background receive loop, each at statement granularity) and the         *)
(* TDCANBridge node of td_can_bridges/bridge_node.py with its BusWorker    *)
(* channels (td_can_bridges/bus_worker.py), and the FrameEncoder /         *)
(* FrameDecoder pair of service.py applied to payloads and frames.         *)
(***************************************************************************)
EXTENDS Integers, Sequences, FiniteSets, TLC

\* ------------------------------------------------------------------ bounds

\* Calls of start(), shutdown() and send() made in one behaviour.
MaxCalls == 3
\* Frames the bus delivers to the receive loops in one behaviour.
MaxFrames == 2
\* Thread objects start() may create in one behaviour.
MaxThreads == 2
\* Bus entries of a bridge configuration.
MaxBuses == 2
\* Operations of the menu run on one MotorHub in one behaviour.
MaxHubOps == 4
\* The largest raw value a signal's bit field of the schema holds.
MaxRaw == 3

\* ------------------------------------------------- the schema and bindings

\* The frame schema loaded from the DBC file: message name -> definition.
Dbc ==
  [ Status1 |-> [frame_id |-> 16, length |-> 2, is_extended_frame |-> FALSE,
                 signals |-> {"motor_temp_C", "speed"}],
    Cmd1    |-> [frame_id |-> 32, length |-> 1, is_extended_frame |-> TRUE,
                 signals |-> {"torque"}] ]

\* The signals of the schema: the physical value of a signal is
\* raw * scale + offset, with raw an unsigned field of 0..MaxRaw.
Signals ==
  [ motor_temp_C |-> [scale |-> 2, offset |-> 0],
    speed        |-> [scale |-> 1, offset |-> 0],
    torque       |-> [scale |-> 1, offset |-> -1] ]

Values == {1}
EmptyMap == [k \in {} |-> 1]

\* The mappings send() may be given as payload.
PayloadDomains == SUBSET {"celsius", "rpm"} \cup {{"torque"}}
Payloads == UNION {[S -> Values] : S \in PayloadDomains}

\* TxBindingConfig objects: fields is the alias -> signal map in dict order.
TxConfigs ==
  { [key |-> "temp_report", message |-> "Status1",
     fields |-> << <<"celsius", "motor_temp_C">>, <<"rpm", "speed">> >>],
    [key |-> "raw_cmd", message |-> "Cmd1", fields |-> << >>] }

\* RxBindingConfig objects: fields is the signal -> alias map in dict order.
RxConfigs ==
  { [key |-> "status", message |-> "Status1",
     fields |-> << <<"motor_temp_C", "celsius">> >>],
    [key |-> "cmd", message |-> "Cmd1", fields |-> << >>] }

\* Binding configurations that name a message the schema does not have.
GhostTxConfigs == { [key |-> "ghost_report", message |-> "Status9", fields |-> << >>] }
GhostRxConfigs == { [key |-> "ghost", message |-> "Status9", fields |-> << >>] }

\* RxBindingConfig objects given to FrameDecoder: no map, a map of every
\* signal and a map of some.
CodecRxConfigs ==
  RxConfigs \cup
  { [key |-> "raw_status", message |-> "Status1", fields |-> << >>],
    [key |-> "status_all", message |-> "Status1",
     fields |-> << <<"speed", "rpm">>, <<"motor_temp_C", "celsius">> >>],
    [key |-> "cmd_nm", message |-> "Cmd1", fields |-> << <<"torque", "nm">> >>] }

\* The keys send() is called with: the configured ones and one never registered.
SendKeys == {c.key : c \in TxConfigs} \cup {"unknown_key"}

\* The frames the bus may deliver: an arbitration id, a data length and the
\* raw fields the data bytes hold, by signal. One is short for its message,
\* one has an id the schema does not know.
RxFrames ==
  { [id |-> Dbc.Status1.frame_id, dlc |-> 1, data |-> [motor_temp_C |-> 1]],
    [id |-> Dbc.Status1.frame_id, dlc |-> 2, data |-> [motor_temp_C |-> 1, speed |-> 2]],
    [id |-> Dbc.Cmd1.frame_id, dlc |-> 1, data |-> [torque |-> 2]],
    [id |-> 99, dlc |-> 2, data |-> [k \in {} |-> 1]] }

NoMsg == [id |-> 0, dlc |-> 0, data |-> EmptyMap]
NoArgs == [key |-> "", payload |-> EmptyMap]
\* No exception and no BridgeConfig: the call has not ended.
NoResult == [err |-> "", path |-> << >>, buses |-> << >>,
             logging |-> EmptyMap, qos |-> EmptyMap]
NoFrame == [arbitration_id |-> 0, data |-> EmptyMap, is_extended_id |-> FALSE]

Callers == {"c1", "c2"}
Threads == 1..MaxThreads

\* ------------------------------------------------------------------- state

VARIABLES
  tx_bindings,   \* CanBusService._tx_bindings: key -> encoder (its binding)
  rx_bindings,   \* CanBusService._rx_bindings: frame id -> binding key
  stop,          \* CanBusService._stop (threading.Event)
  rx_thread,     \* CanBusService._rx_thread: 0 for None, else a thread
  bus,           \* the handle self.bus: "open" or "closed"
  tpc,           \* each thread object's position in _rx_loop
  tmsg,          \* each receive loop's local msg
  tentry,        \* each receive loop's local binding_entry (its key)
  notifier,      \* each receive loop's notifier is running
  log,           \* handler invocations and LOG.exception records, in order
  sent,          \* frames written to the bus
  cpc,           \* each caller's position in the operation it runs
  cargs,         \* the arguments of a caller's send()
  cframe,        \* the encoded frame of a caller's send()
  cres,          \* the outcome of each caller's last finished call
  ncalls,        \* calls made so far
  nframes,       \* frames delivered so far
  nthreads,      \* thread objects created so far
  sd_returned,   \* calls of shutdown() that have returned normally
  bcfg,          \* bridge: the 'buses' list of the configuration
  bpc,           \* bridge: position of the node's lifecycle
  bi,            \* bridge: index of the loop over buses / workers
  workers,       \* bridge: self.workers, one record per constructed BusWorker
  orphans,       \* bridge: workers constructed by a failed __init__
  breport,       \* bridge: exceptions raised out of __init__ / destroy_node
  kpc,           \* codec: position of one encode / decode computation
  kenc,          \* codec: the TxBindingConfig of the FrameEncoder
  kdec,          \* codec: the RxBindingConfig of the FrameDecoder
  kpayload,      \* codec: the payload given to encode
  kframe,        \* codec: the frame encode returned, or the bus delivered
  kout,          \* codec: the dictionary decode returned
  lpc,           \* loader: position of one load_bridge_config call
  lpath,         \* loader: the path the call is given
  lfile,         \* loader: the file at the path: its state and what it holds
  lraw,          \* loader: the local raw, the mapping read from the file
  lidx,          \* loader: index of the loop over the 'buses' entries
  lbuses,        \* loader: buses_cfg, the BusConfig objects built so far
  lres,          \* loader: the exception raised or the BridgeConfig returned
  chan,          \* several CanBusService objects side by side, by number
  hub            \* MotorHub: its bus object, its connected flag, the calls made

svars == <<tx_bindings, rx_bindings, stop, rx_thread, bus, tpc, tmsg, tentry,
           notifier, log, sent, cpc, cargs, cframe, cres, ncalls, nframes,
           nthreads, sd_returned>>
bvars == <<bcfg, bpc, bi, workers, orphans, breport>>
kvars == <<kpc, kenc, kdec, kpayload, kframe, kout>>
lvars == <<lpc, lpath, lfile, lraw, lidx, lbuses, lres>>
mvars == <<chan>>
hvars == <<hub>>
vars == <<svars, bvars, kvars, lvars, mvars, hvars>>

\* --------------------------------------------------------- pure operators

\* threading.Thread.is_alive(): started and not yet finished.
Alive(p) == p \notin {"none", "created", "done"}

Result(op, err, field) == [op |-> op, err |-> err, field |-> field]

RECURSIVE EncodeValues_Default(_, _, _)
\* A faulty variant: payload.get(alias, 1) in place of the membership test.
EncodeValues_Default(fields, payload, values) ==
  IF fields = << >> THEN [err |-> "ok", field |-> "", values |-> values]
  ELSE LET alias == Head(fields)[1]
           signal == Head(fields)[2]
       IN EncodeValues_Default(Tail(fields), payload,
            [s \in DOMAIN values \cup {signal} |->
               IF s = signal
               THEN (IF alias \in DOMAIN payload THEN payload[alias] ELSE 1)
               ELSE values[s]])

RECURSIVE EncodeValues(_, _, _)
\* FrameEncoder.encode, the loop over alias_to_signal: the values gathered so
\* far, or the first alias the payload lacks.
EncodeValues(fields, payload, values) ==
  IF fields = << >> THEN [err |-> "ok", field |-> "", values |-> values]
  ELSE LET alias == Head(fields)[1]
           signal == Head(fields)[2]
       IN IF alias \notin DOMAIN payload
          THEN [err |-> "MissingField", field |-> alias, values |-> EmptyMap]
          ELSE EncodeValues(Tail(fields), payload,
                 [s \in DOMAIN values \cup {signal} |->
                    IF s = signal THEN payload[alias] ELSE values[s]])

\* The schema library's conversion of a physical value to the raw field:
\* round((value - offset) / scale), halves to the even neighbour.
ScaledToRaw(signal, value) ==
  LET n == value - Signals[signal].offset
      d == Signals[signal].scale
      q == n \div d
      r == n % d
  IN IF 2 * r < d THEN q
     ELSE IF 2 * r > d THEN q + 1
     ELSE IF q % 2 = 0 THEN q ELSE q + 1

\* A faulty variant: the offset of the signal is not applied.
RawToScaled_NoOffset(signal, raw) == raw * Signals[signal].scale

\* The schema library's conversion of a raw field to the physical value.
RawToScaled(signal, raw) == raw * Signals[signal].scale + Signals[signal].offset

\* msg_def.encode(values) of the schema library succeeds: every signal of the
\* message and no other name is given, and each value fits its field.
MsgEncodes(msg_def, values) ==
  /\ DOMAIN values = msg_def.signals
  /\ \A s \in msg_def.signals : ScaledToRaw(s, values[s]) \in 0..MaxRaw

\* msg_def.encode(values): the data of the frame, one raw field per signal.
MsgEncode(msg_def, values) ==
  [s \in msg_def.signals |-> ScaledToRaw(s, values[s])]

\* msg_def.decode(raw_bytes): the physical value of every signal of the message.
MsgDecode(msg_def, data) ==
  [s \in msg_def.signals |-> RawToScaled(s, data[s])]

\* A faulty variant: the encoder numbers the frames itself.
FrameId_Own(msg_def) == msg_def.frame_id + 1

\* FrameEncoder.encode: arbitration_id=self.msg_def.frame_id
FrameId(msg_def) == msg_def.frame_id

\* A faulty variant: payload keys that are no signals of the message are dropped.
PassedValues_Filtered(msg_def, payload) ==
  [k \in DOMAIN payload \cap msg_def.signals |-> payload[k]]

\* FrameEncoder.encode, empty map: values = dict(payload)
PassedValues(msg_def, payload) == payload

\* FrameEncoder.encode(payload) for the encoder of `binding`.
Encode(binding, payload) ==
  LET msg_def == Dbc[binding.message]
      got == IF binding.fields # << >>
             THEN EncodeValues(binding.fields, payload, EmptyMap)
             ELSE [err |-> "ok", field |-> "", values |-> PassedValues(msg_def, payload)]
  IN IF got.err # "ok" THEN [err |-> got.err, field |-> got.field, frame |-> NoFrame]
     ELSE IF ~MsgEncodes(msg_def, got.values)
     THEN [err |-> "EncodeError", field |-> "", frame |-> NoFrame]
     ELSE [err |-> "ok", field |-> "",
           frame |-> [arbitration_id |-> FrameId(msg_def),
                      data |-> MsgEncode(msg_def, got.values),
                      is_extended_id |-> msg_def.is_extended_frame]]

RECURSIVE DecodeAliases_Leaky(_, _, _)
\* A faulty variant: the remapped signals are added to the decoded ones.
DecodeAliases_Leaky(fields, decoded, out) ==
  IF fields = << >> THEN [k \in DOMAIN out \cup DOMAIN decoded |->
                           IF k \in DOMAIN out THEN out[k] ELSE decoded[k]]
  ELSE LET signal == Head(fields)[1]
           alias == Head(fields)[2]
       IN DecodeAliases_Leaky(Tail(fields), decoded,
            [a \in DOMAIN out \cup {alias} |->
               IF a = alias THEN decoded[signal] ELSE out[a]])

RECURSIVE DecodeAliases(_, _, _)
\* FrameDecoder.decode, the comprehension over signal_to_alias: each alias
\* gets the decoded value of its signal, a later entry replacing an earlier
\* one of the same alias. The maps of this model name signals of the message.
DecodeAliases(fields, decoded, out) ==
  IF fields = << >> THEN out
  ELSE LET signal == Head(fields)[1]
           alias == Head(fields)[2]
       IN DecodeAliases(Tail(fields), decoded,
            [a \in DOMAIN out \cup {alias} |->
               IF a = alias THEN decoded[signal] ELSE out[a]])

\* FrameDecoder.decode(raw_bytes) for the decoder of `binding`.
Decode(binding, data) ==
  LET decoded == MsgDecode(Dbc[binding.message], data)
  IN IF binding.fields # << >>
     THEN DecodeAliases(binding.fields, decoded, EmptyMap)
     ELSE decoded

\* msg_def.decode(raw_bytes) of the schema library succeeds: the data is not
\* shorter than the message.
DecodeOk(msg_def, msg) == msg.dlc >= msg_def.length

RxConfigOf(key) == CHOOSE c \in CodecRxConfigs : c.key = key

\* ------------------------------------------------- CanBusService: callers

\* CanBusService.__init__ has run: the bus is open, nothing is registered,
\* the stop event is clear and no thread is recorded.
ServiceInit ==
  /\ tx_bindings = EmptyMap
  /\ rx_bindings = EmptyMap
  /\ stop = FALSE
  /\ rx_thread = 0
  /\ bus = "open"
  /\ tpc = [t \in Threads |-> "none"]
  /\ tmsg = [t \in Threads |-> NoMsg]
  /\ tentry = [t \in Threads |-> ""]
  /\ notifier = [t \in Threads |-> FALSE]
  /\ log = << >>
  /\ sent = << >>
  /\ cpc = [c \in Callers |-> "idle"]
  /\ cargs = [c \in Callers |-> NoArgs]
  /\ cframe = [c \in Callers |-> NoFrame]
  /\ cres = [c \in Callers |-> Result("none", "ok", "")]
  /\ ncalls = 0
  /\ nframes = 0
  /\ nthreads = 0
  /\ sd_returned = 0

\* A call ends: its caller holds the outcome (a return, or the exception).
Return(c, op, err, field) ==
  /\ cpc' = [cpc EXCEPT ![c] = "returned"]
  /\ cres' = [cres EXCEPT ![c] = Result(op, err, field)]
  /\ cargs' = [cargs EXCEPT ![c] = NoArgs]
  /\ cframe' = [cframe EXCEPT ![c] = NoFrame]

Goto(c, pc) ==
  /\ cpc' = [cpc EXCEPT ![c] = pc]
  /\ UNCHANGED <<cres, cargs, cframe>>

\* The caller goes on after a call.
Resume(c) ==
  /\ cpc[c] = "returned"
  /\ cpc' = [cpc EXCEPT ![c] = "idle"]
  /\ cres' = [cres EXCEPT ![c] = Result("none", "ok", "")]
  /\ UNCHANGED <<cargs, cframe>>
  /\ UNCHANGED <<tx_bindings, rx_bindings, stop, rx_thread, bus, tpc, tmsg, tentry,
                 notifier, log, sent, ncalls, nframes, nthreads, sd_returned,
                 bvars, kvars, lvars, mvars, hvars>>

\* A faulty variant: a failed registration resets the registry.
RegistryAfterLookupError_Cleared(registry) == EmptyMap

\* register_tx_binding / register_rx_binding: get_message_by_name raises in
\* the constructor, before the assignment to the registry.
RegistryAfterLookupError(registry) == registry

\* register_tx_binding(binding): FrameEncoder resolves the message by name
\* (KeyError when the schema lacks it), then the encoder is stored under the key.
RegisterTx(c, binding) ==
  /\ cpc[c] = "idle"
  /\ IF binding.message \notin DOMAIN Dbc
     THEN /\ Return(c, "register_tx", "KeyError", "")
          /\ tx_bindings' = RegistryAfterLookupError(tx_bindings)
     ELSE /\ tx_bindings' = [k \in DOMAIN tx_bindings \cup {binding.key} |->
                               IF k = binding.key THEN binding ELSE tx_bindings[k]]
          /\ Return(c, "register_tx", "ok", "")
  /\ UNCHANGED <<rx_bindings, stop, rx_thread, bus, tpc, tmsg, tentry, notifier,
                 log, sent, ncalls, nframes, nthreads, sd_returned, bvars, kvars, lvars,
                 mvars, hvars>>

\* register_rx_binding(binding, handler): FrameDecoder resolves the message,
\* then (decoder, binding, handler) is stored under the decoder's frame id.
\* self._rx_bindings[binding.frame_id] = binding: the value the dictionary
\* holds for the frame id after the store.
StoredBinding_KeepsFirst(rx, id, key) == IF id \in DOMAIN rx THEN rx[id] ELSE key
StoredBinding(rx, id, key) == key

RegisterRx(c, binding) ==
  /\ cpc[c] = "idle"
  /\ IF binding.message \notin DOMAIN Dbc
     THEN /\ Return(c, "register_rx", "KeyError", "")
          /\ rx_bindings' = RegistryAfterLookupError(rx_bindings)
     ELSE /\ LET id == Dbc[binding.message].frame_id
             IN rx_bindings' = [k \in DOMAIN rx_bindings \cup {id} |->
                                  IF k = id THEN StoredBinding(rx_bindings, id, binding.key)
                                  ELSE rx_bindings[k]]
          /\ Return(c, "register_rx", "ok", "")
  /\ UNCHANGED <<tx_bindings, stop, rx_thread, bus, tpc, tmsg, tentry, notifier,
                 log, sent, ncalls, nframes, nthreads, sd_returned, bvars, kvars, lvars,
                 mvars, hvars>>

\* The guard of start(): a thread is recorded and it is alive.
StartGuard_Never(h, p) == FALSE
StartGuard(h, p) == h # 0 /\ Alive(p[h])

\* start() is called. A thread object is left for it to create.
StartCall(c) ==
  /\ cpc[c] = "idle"
  /\ ncalls < MaxCalls
  /\ nthreads + Cardinality({d \in Callers : cpc[d] \in {"start_check", "start_new"}})
       < MaxThreads
  /\ ncalls' = ncalls + 1
  /\ Goto(c, "start_check")
  /\ UNCHANGED <<tx_bindings, rx_bindings, stop, rx_thread, bus, tpc, tmsg, tentry,
                 notifier, log, sent, nframes, nthreads, sd_returned,
                 bvars, kvars, lvars, mvars, hvars>>

\* start(): if self._rx_thread and self._rx_thread.is_alive(): return
StartCheck(c) ==
  /\ cpc[c] = "start_check"
  /\ IF StartGuard(rx_thread, tpc)
     THEN Return(c, "start", "ok", "")
     ELSE Goto(c, "start_new")
  /\ UNCHANGED <<tx_bindings, rx_bindings, stop, rx_thread, bus, tpc, tmsg, tentry,
                 notifier, log, sent, ncalls, nframes, nthreads, sd_returned,
                 bvars, kvars, lvars, mvars, hvars>>

\* start(): self._stop.clear(); self._rx_thread = threading.Thread(...)
StartNew(c) ==
  /\ cpc[c] = "start_new"
  /\ stop' = FALSE
  /\ nthreads' = nthreads + 1
  /\ rx_thread' = nthreads + 1
  /\ tpc' = [tpc EXCEPT ![nthreads + 1] = "created"]
  /\ Goto(c, "start_run")
  /\ UNCHANGED <<tx_bindings, rx_bindings, bus, tmsg, tentry, notifier, log, sent,
                 ncalls, nframes, sd_returned, bvars, kvars, lvars, mvars, hvars>>

\* start(): self._rx_thread.start(), on whatever self._rx_thread now holds.
StartRun(c) ==
  /\ cpc[c] = "start_run"
  /\ IF rx_thread = 0
     THEN /\ Return(c, "start", "AttributeError", "")
          /\ UNCHANGED tpc
     ELSE IF tpc[rx_thread] # "created"
     THEN /\ Return(c, "start", "RuntimeError", "")
          /\ UNCHANGED tpc
     ELSE /\ tpc' = [tpc EXCEPT ![rx_thread] = "begin"]
          /\ Return(c, "start", "ok", "")
  /\ UNCHANGED <<tx_bindings, rx_bindings, stop, rx_thread, bus, tmsg, tentry,
                 notifier, log, sent, ncalls, nframes, nthreads, sd_returned,
                 bvars, kvars, lvars, mvars, hvars>>

\* A faulty variant: shutdown() begins by closing the bus.
ShutdownFirst_Close == "sd_close"

\* shutdown(): its first statement is self._stop.set()
ShutdownFirst == "sd_set"

\* shutdown() is called.
ShutdownCall(c) ==
  /\ cpc[c] = "idle"
  /\ ncalls < MaxCalls
  /\ ncalls' = ncalls + 1
  /\ Goto(c, ShutdownFirst)
  /\ UNCHANGED <<tx_bindings, rx_bindings, stop, rx_thread, bus, tpc, tmsg, tentry,
                 notifier, log, sent, nframes, nthreads, sd_returned,
                 bvars, kvars, lvars, mvars, hvars>>

\* shutdown(): self._stop.set()
ShutdownSet(c) ==
  /\ cpc[c] = "sd_set"
  /\ stop' = TRUE
  /\ Goto(c, "sd_check")
  /\ UNCHANGED <<tx_bindings, rx_bindings, rx_thread, bus, tpc, tmsg, tentry,
                 notifier, log, sent, ncalls, nframes, nthreads, sd_returned,
                 bvars, kvars, lvars, mvars, hvars>>

\* A faulty variant: the join is not guarded.
ShutdownJoins_Always(h) == TRUE

\* shutdown(): if self._rx_thread: -- a thread is recorded.
ShutdownJoins(h) == h # 0

\* shutdown(): the join is skipped when no thread is recorded.
ShutdownCheck(c) ==
  /\ cpc[c] = "sd_check"
  /\ IF ShutdownJoins(rx_thread) THEN Goto(c, "sd_join") ELSE Goto(c, "sd_close")
  /\ UNCHANGED <<tx_bindings, rx_bindings, stop, rx_thread, bus, tpc, tmsg, tentry,
                 notifier, log, sent, ncalls, nframes, nthreads, sd_returned,
                 bvars, kvars, lvars, mvars, hvars>>

\* A faulty variant: join() without a timeout.
JoinReturns_Unbounded(p) == ~Alive(p)

\* join(timeout=1.0) of a thread at position p returns: the thread has
\* finished, or the timeout passed while it is held inside a handler call (the
\* one step of the loop that is not bounded by the 0.1 s poll).
JoinReturns(p) == ~Alive(p) \/ p = "handler"

\* shutdown(): self._rx_thread.join(timeout=1.0), on whatever self._rx_thread
\* now holds.
ShutdownJoin(c) ==
  /\ cpc[c] = "sd_join"
  /\ IF rx_thread = 0
     THEN Return(c, "shutdown", "AttributeError", "")
     ELSE IF tpc[rx_thread] = "created"
     THEN Return(c, "shutdown", "RuntimeError", "")
     ELSE /\ JoinReturns(tpc[rx_thread])
          /\ Goto(c, "sd_clear")
  /\ UNCHANGED <<tx_bindings, rx_bindings, stop, rx_thread, bus, tpc, tmsg, tentry,
                 notifier, log, sent, ncalls, nframes, nthreads, sd_returned,
                 bvars, kvars, lvars, mvars, hvars>>

\* shutdown(): self._rx_thread = None
ShutdownClear(c) ==
  /\ cpc[c] = "sd_clear"
  /\ rx_thread' = 0
  /\ Goto(c, "sd_close")
  /\ UNCHANGED <<tx_bindings, rx_bindings, stop, bus, tpc, tmsg, tentry, notifier,
                 log, sent, ncalls, nframes, nthreads, sd_returned, bvars, kvars, lvars,
                 mvars, hvars>>

\* A faulty variant: no try/except around self.bus.shutdown().
ShutdownCloseOutcome_Raises(raised) == IF raised THEN "Exception" ELSE "ok"

\* shutdown(): try: self.bus.shutdown() except Exception: LOG.debug(...)
\* What the call ends with when the driver raised or not.
ShutdownCloseOutcome(raised) == "ok"

\* A faulty variant: shutdown() leaves the bus handle as it is.
BusAfterShutdown_Kept(b) == b

\* shutdown(): self.bus.shutdown() -- the handle afterwards.
BusAfterShutdown(b) == "closed"

\* shutdown(): the driver releases the bus handle; it may raise doing so.
ShutdownClose(c) ==
  /\ cpc[c] = "sd_close"
  /\ bus' = BusAfterShutdown(bus)
  /\ \E raised \in BOOLEAN :
       LET err == ShutdownCloseOutcome(raised)
       IN /\ Return(c, "shutdown", err, "")
          /\ sd_returned' = IF err = "ok" THEN sd_returned + 1 ELSE sd_returned
  /\ UNCHANGED <<tx_bindings, rx_bindings, stop, rx_thread, tpc, tmsg, tentry,
                 notifier, log, sent, ncalls, nframes, nthreads, bvars, kvars, lvars,
                 mvars, hvars>>

\* send(key, payload) is called.
SendCall(c, key, payload) ==
  /\ cpc[c] = "idle"
  /\ ncalls < MaxCalls
  /\ ncalls' = ncalls + 1
  /\ cpc' = [cpc EXCEPT ![c] = "send_encode"]
  /\ cargs' = [cargs EXCEPT ![c] = [key |-> key, payload |-> payload]]
  /\ UNCHANGED <<cres, cframe>>
  /\ UNCHANGED <<tx_bindings, rx_bindings, stop, rx_thread, bus, tpc, tmsg, tentry,
                 notifier, log, sent, nframes, nthreads, sd_returned,
                 bvars, kvars, lvars, mvars, hvars>>

\* send(): if key not in self._tx_bindings:
SendKnows(tx, key) == key \in DOMAIN tx

\* A faulty variant: return in place of raise.
UnknownBinding_Swallowed(key) == Result("send", "ok", "")

\* send(): raise KeyError(f"Unknown TX binding '{key}'")
UnknownBinding(key) == Result("send", "UnknownBinding", key)

\* send(): the key check and the encoding; with a frame, bus.send is entered.
SendEncode(c) ==
  /\ cpc[c] = "send_encode"
  /\ IF ~SendKnows(tx_bindings, cargs[c].key)
     THEN LET e == UnknownBinding(cargs[c].key)
          IN Return(c, e.op, e.err, e.field)
     ELSE LET r == Encode(tx_bindings[cargs[c].key], cargs[c].payload)
          IN IF r.err # "ok"
             THEN Return(c, "send", r.err, r.field)
             ELSE /\ cpc' = [cpc EXCEPT ![c] = "send_write"]
                  /\ cframe' = [cframe EXCEPT ![c] = r.frame]
                  /\ cargs' = [cargs EXCEPT ![c] = NoArgs]
                  /\ UNCHANGED cres
  /\ UNCHANGED <<tx_bindings, rx_bindings, stop, rx_thread, bus, tpc, tmsg, tentry,
                 notifier, log, sent, ncalls, nframes, nthreads, sd_returned,
                 bvars, kvars, lvars, mvars, hvars>>

\* self.bus.send(frame) on a handle in state b: a closed handle takes no frame.
BusAccepts(b) == b = "open"

\* A faulty variant: the write error is caught and send() returns.
WriteError_Swallowed == "ok"

\* send(): the exception self.bus.send(frame) raises leaves send() as it is.
WriteError == "CanOperationError"

\* A faulty variant: a failed write releases the bus handle.
BusAfterWriteError_Closed(b) == "closed"

\* send(): nothing is done about a failed write; the handle stays as it is.
BusAfterWriteError(b) == b

\* send(): self.bus.send(frame) ends: the frame is written, or the write
\* fails and its error leaves send().
SendWrite(c) ==
  /\ cpc[c] = "send_write"
  /\ \/ /\ BusAccepts(bus)
        /\ sent' = Append(sent, cframe[c])
        /\ Return(c, "send", "ok", "")
        /\ UNCHANGED bus
     \/ /\ UNCHANGED sent
        /\ bus' = BusAfterWriteError(bus)
        /\ Return(c, "send", WriteError, "")
  /\ UNCHANGED <<tx_bindings, rx_bindings, stop, rx_thread, tpc, tmsg, tentry,
                 notifier, log, ncalls, nframes, nthreads, sd_returned,
                 bvars, kvars, lvars, mvars, hvars>>

\* --------------------------------------------- CanBusService: _rx_loop

\* What the log records of handler(payload, binding): the frame's id, the
\* key of the binding and the payload the handler is given.
HandledEntry(id, key, payload) ==
  [kind |-> "handled", id |-> id, key |-> key, payload |-> payload]
ErrorEntry(kind, id) == [kind |-> kind, id |-> id, key |-> "", payload |-> EmptyMap]

\* A faulty variant: the handler is invoked a second time for the frame.
InvokeHandler_Twice(l, e) == Append(Append(l, e), e)

\* _rx_loop(): handler(payload, binding), one call per decoded frame.
InvokeHandler(l, e) == Append(l, e)

\* _rx_loop(): reader = can.BufferedReader(); notifier = can.Notifier(...)
RxBegin(t) ==
  /\ tpc[t] = "begin"
  /\ notifier' = [notifier EXCEPT ![t] = TRUE]
  /\ tpc' = [tpc EXCEPT ![t] = "loop"]
  /\ UNCHANGED <<tx_bindings, rx_bindings, stop, rx_thread, bus, tmsg, tentry, log,
                 sent, cpc, cargs, cframe, cres, ncalls, nframes, nthreads,
                 sd_returned, bvars, kvars, lvars, mvars, hvars>>

\* _rx_loop(): while not self._stop.is_set(): -- the locals msg and
\* binding_entry of the last round are dead here and are dropped.
RxLoop(t) ==
  /\ tpc[t] = "loop"
  /\ tpc' = [tpc EXCEPT ![t] = IF stop THEN "finally" ELSE "poll"]
  /\ tmsg' = [tmsg EXCEPT ![t] = NoMsg]
  /\ tentry' = [tentry EXCEPT ![t] = ""]
  /\ UNCHANGED <<tx_bindings, rx_bindings, stop, rx_thread, bus,
                 notifier, log, sent, cpc, cargs, cframe, cres, ncalls, nframes,
                 nthreads, sd_returned, bvars, kvars, lvars, mvars, hvars>>

\* A faulty variant: get_message() without a timeout never returns None.
RxPollTimeout_Blocks(t) ==
  /\ tpc[t] = "poll"
  /\ FALSE
  /\ UNCHANGED vars

\* _rx_loop(): msg = reader.get_message(timeout=0.1) returns None after the
\* timeout: continue.
RxPollTimeout(t) ==
  /\ tpc[t] = "poll"
  /\ tmsg' = [tmsg EXCEPT ![t] = NoMsg]
  /\ tpc' = [tpc EXCEPT ![t] = "loop"]
  /\ UNCHANGED <<tx_bindings, rx_bindings, stop, rx_thread, bus, tentry, notifier,
                 log, sent, cpc, cargs, cframe, cres, ncalls, nframes, nthreads,
                 sd_returned, bvars, kvars, lvars, mvars, hvars>>

\* _rx_loop(): msg = reader.get_message(timeout=0.1) returns a frame the
\* notifier read from the open bus.
RxPollFrame(t, f) ==
  /\ tpc[t] = "poll"
  /\ bus = "open"
  /\ nframes < MaxFrames
  /\ nframes' = nframes + 1
  /\ tmsg' = [tmsg EXCEPT ![t] = f]
  /\ tpc' = [tpc EXCEPT ![t] = "lookup"]
  /\ UNCHANGED <<tx_bindings, rx_bindings, stop, rx_thread, bus, tentry, notifier,
                 log, sent, cpc, cargs, cframe, cres, ncalls, nthreads,
                 sd_returned, bvars, kvars, lvars, mvars, hvars>>

\* A faulty variant: the loop looks up a registry that no registration reaches.
RxFinds_Never(rx, id) == FALSE

\* _rx_loop(): binding_entry = self._rx_bindings.get(msg.arbitration_id)
RxFinds(rx, id) == id \in DOMAIN rx

\* A faulty variant: a frame without decoder is logged as an error.
RxMissLog_Error(l, id) == Append(l, ErrorEntry("decode_error", id))

\* _rx_loop(): if not binding_entry: continue -- what the log holds afterwards.
RxMissLog(l, id) == l

\* _rx_loop(): the lookup of the frame's decoder.
RxLookup(t) ==
  /\ tpc[t] = "lookup"
  /\ IF RxFinds(rx_bindings, tmsg[t].id)
     THEN /\ tentry' = [tentry EXCEPT ![t] = rx_bindings[tmsg[t].id]]
          /\ tpc' = [tpc EXCEPT ![t] = "decode"]
          /\ UNCHANGED log
     ELSE /\ tentry' = [tentry EXCEPT ![t] = ""]
          /\ tpc' = [tpc EXCEPT ![t] = "loop"]
          /\ log' = RxMissLog(log, tmsg[t].id)
  /\ UNCHANGED <<tx_bindings, rx_bindings, stop, rx_thread, bus, tmsg, notifier,
                 sent, cpc, cargs, cframe, cres, ncalls, nframes, nthreads,
                 sd_returned, bvars, kvars, lvars, mvars, hvars>>

\* A faulty variant: the try/except around the while, not inside it.
RxAfterException_Leaves == "finally"

\* A faulty variant: no except clause at all, the exception ends the thread.
RxAfterException_Ends == "done"

\* _rx_loop(): where an exception of the try body leaves the loop: the except
\* clause is inside the while, so at its head.
RxAfterException == "loop"

\* _rx_loop(): payload = decoder.decode(bytes(msg.data)); handler(payload,
\* binding) is entered, or the decode error is logged.
RxDecode(t) ==
  /\ tpc[t] = "decode"
  /\ IF DecodeOk(Dbc[RxConfigOf(tentry[t]).message], tmsg[t])
     THEN /\ log' = InvokeHandler(log,
                      HandledEntry(tmsg[t].id, tentry[t],
                                   Decode(RxConfigOf(tentry[t]), tmsg[t].data)))
          /\ tpc' = [tpc EXCEPT ![t] = "handler"]
     ELSE /\ log' = Append(log, ErrorEntry("decode_error", tmsg[t].id))
          /\ tpc' = [tpc EXCEPT ![t] = RxAfterException]
  /\ UNCHANGED <<tx_bindings, rx_bindings, stop, rx_thread, bus, tmsg, tentry,
                 notifier, sent, cpc, cargs, cframe, cres, ncalls, nframes,
                 nthreads, sd_returned, bvars, kvars, lvars, mvars, hvars>>

\* _rx_loop(): handler(payload, binding) returns, or raises and is logged.
\* A handler may also never return: then this step is never taken.
RxHandler(t) ==
  /\ tpc[t] = "handler"
  /\ \/ /\ tpc' = [tpc EXCEPT ![t] = "loop"]
        /\ UNCHANGED log
     \/ /\ tpc' = [tpc EXCEPT ![t] = RxAfterException]
        /\ log' = Append(log, ErrorEntry("handler_error", tmsg[t].id))
  /\ UNCHANGED <<tx_bindings, rx_bindings, stop, rx_thread, bus, tmsg, tentry,
                 notifier, sent, cpc, cargs, cframe, cres, ncalls, nframes,
                 nthreads, sd_returned, bvars, kvars, lvars, mvars, hvars>>

\* A faulty variant: the finally clause does not stop the notifier.
NotifierAfterFinally_Running == TRUE

\* _rx_loop(): finally: notifier.stop() -- the notifier runs no more.
NotifierAfterFinally == FALSE

\* _rx_loop(): handler(payload, binding) raises an exception that is not an
\* Exception (SystemExit, KeyboardInterrupt): the except clause does not
\* take it, it leaves the while and the finally clause runs.
RxEscape(t) ==
  /\ tpc[t] = "handler"
  /\ tpc' = [tpc EXCEPT ![t] = "finally"]
  /\ UNCHANGED <<tx_bindings, rx_bindings, stop, rx_thread, bus, tmsg, tentry,
                 notifier, log, sent, cpc, cargs, cframe, cres, ncalls, nframes,
                 nthreads, sd_returned, bvars, kvars, lvars, mvars, hvars>>

\* _rx_loop(): finally: notifier.stop(); the thread ends.
RxFinally(t) ==
  /\ tpc[t] = "finally"
  /\ notifier' = [notifier EXCEPT ![t] = NotifierAfterFinally]
  /\ tpc' = [tpc EXCEPT ![t] = "done"]
  /\ UNCHANGED <<tx_bindings, rx_bindings, stop, rx_thread, bus, tmsg, tentry, log,
                 sent, cpc, cargs, cframe, cres, ncalls, nframes, nthreads,
                 sd_returned, bvars, kvars, lvars, mvars, hvars>>

\* ------------------------------------------------ TopicTxBinding._cb

\* The messages a subscription may deliver: the attributes hasattr finds with
\* their values, and the names the object lists -- its public __slots__, or
\* the keys of its __dict__ when it has no __slots__. A message of a
\* generated ROS type lists private slots only and has a property per field.
RosMsgs ==
  { [attrs |-> [celsius |-> 1, rpm |-> 1], layout |-> "slots", names |-> {}],
    [attrs |-> [celsius |-> 1], layout |-> "slots", names |-> {}],
    [attrs |-> [data |-> 1], layout |-> "slots", names |-> {}],
    [attrs |-> [torque |-> 1], layout |-> "slots", names |-> {"torque"}],
    [attrs |-> [torque |-> 1], layout |-> "dict", names |-> {"torque"}],
    [attrs |-> EmptyMap, layout |-> "dict", names |-> {}] }

RECURSIVE CbFields(_, _, _)
\* _cb(): for ros_field in self.binding.fields.keys(): the first field the
\* message lacks ends the loop; else the payload holds every field.
CbFields(fields, ros_msg, payload) ==
  IF fields = << >> THEN [missing |-> "", payload |-> payload]
  ELSE LET ros_field == Head(fields)[1]
       IN IF ros_field \notin DOMAIN ros_msg.attrs
          THEN [missing |-> ros_field, payload |-> payload]
          ELSE CbFields(Tail(fields), ros_msg,
                        [k \in DOMAIN payload \cup {ros_field} |->
                           IF k = ros_field THEN ros_msg.attrs[k] ELSE payload[k]])

\* _cb(): the payload built from the message, or the field it lacks.
CbPayload(binding, ros_msg) ==
  LET first == IF binding.fields # << >>
               THEN CbFields(binding.fields, ros_msg, EmptyMap)
               ELSE [missing |-> "",
                     payload |-> [k \in ros_msg.names |-> ros_msg.attrs[k]]]
  IN IF first.missing = "" /\ DOMAIN first.payload = {} /\ "data" \in DOMAIN ros_msg.attrs
     THEN [missing |-> "", payload |-> [k \in {"data"} |-> ros_msg.attrs[k]]]
     ELSE first

\* A faulty variant: no try/except around self.service.send.
CbAfterSendError_Raises(err) == err

\* _cb(): except Exception as exc: logger.error(...) -- how _cb ends when
\* send raised err.
CbAfterSendError(err) == "ok"

\* The executor calls self._cb(ros_msg) of the TopicTxBinding of `key`, whose
\* __init__ registered the binding. A message that lacks a configured field
\* is logged and _cb returns; else send is entered with the payload.
CbCall(c, key, ros_msg) ==
  /\ cpc[c] = "idle"
  /\ ncalls < MaxCalls
  /\ key \in DOMAIN tx_bindings
  /\ ncalls' = ncalls + 1
  /\ LET built == CbPayload(tx_bindings[key], ros_msg)
     IN IF built.missing # ""
        THEN /\ log' = Append(log, ErrorEntry("cb_missing_field", 0))
             /\ Return(c, "cb", "ok", built.missing)
        ELSE /\ cpc' = [cpc EXCEPT ![c] = "cb_encode"]
             /\ cargs' = [cargs EXCEPT ![c] = [key |-> key, payload |-> built.payload]]
             /\ UNCHANGED <<cres, cframe, log>>
  /\ UNCHANGED <<tx_bindings, rx_bindings, stop, rx_thread, bus, tpc, tmsg, tentry,
                 notifier, sent, nframes, nthreads, sd_returned,
                 bvars, kvars, lvars, mvars, hvars>>

\* _cb(): self.service.send(key, payload), up to the encoded frame; an
\* exception of the key check or of the encoding is caught and logged.
CbEncode(c) ==
  /\ cpc[c] = "cb_encode"
  /\ LET r == IF ~SendKnows(tx_bindings, cargs[c].key)
              THEN [err |-> UnknownBinding(cargs[c].key).err, frame |-> NoFrame]
              ELSE Encode(tx_bindings[cargs[c].key], cargs[c].payload)
     IN IF r.err # "ok"
        THEN /\ log' = Append(log, ErrorEntry("cb_send_failed", 0))
             /\ Return(c, "cb", CbAfterSendError(r.err), "")
        ELSE /\ cpc' = [cpc EXCEPT ![c] = "cb_write"]
             /\ cframe' = [cframe EXCEPT ![c] = r.frame]
             /\ cargs' = [cargs EXCEPT ![c] = NoArgs]
             /\ UNCHANGED <<cres, log>>
  /\ UNCHANGED <<tx_bindings, rx_bindings, stop, rx_thread, bus, tpc, tmsg, tentry,
                 notifier, sent, ncalls, nframes, nthreads, sd_returned,
                 bvars, kvars, lvars, mvars, hvars>>

\* _cb(): self.bus.send(frame) inside send: the frame is written, or the
\* write fails and its error is caught and logged.
CbWrite(c) ==
  /\ cpc[c] = "cb_write"
  /\ \/ /\ BusAccepts(bus)
        /\ sent' = Append(sent, cframe[c])
        /\ Return(c, "cb", "ok", "")
        /\ UNCHANGED <<bus, log>>
     \/ /\ UNCHANGED sent
        /\ bus' = BusAfterWriteError(bus)
        /\ log' = Append(log, ErrorEntry("cb_send_failed", 0))
        /\ Return(c, "cb", CbAfterSendError(WriteError), "")
  /\ UNCHANGED <<tx_bindings, rx_bindings, stop, rx_thread, tpc, tmsg, tentry,
                 notifier, ncalls, nframes, nthreads, sd_returned,
                 bvars, kvars, lvars, mvars, hvars>>

\* ------------------------------------------ TDCANBridge and BusWorker

\* A 'buses' entry of the configuration: it has 'name' and 'interface', its
\* interface can be opened, it has a loadable 'dbc_file', it has entries
\* under 'tx_topics' or 'rx_frames'.
BusEntries == [named : BOOLEAN, openable : BOOLEAN, dbc : BOOLEAN, bindings : BOOLEAN]

BusLists == UNION {[1..n -> BusEntries] : n \in 0..MaxBuses}

NoWorker == [idx |-> 0, bus |-> "none", stop |-> FALSE, rx |-> "none", err |-> FALSE]

\* BusWorker.__init__(node, cfg, qos_defaults) for entry `idx`: can.Bus(...)
\* raises for an interface that cannot be opened; a missing dbc_file raises
\* after the bus is open; TopicTxBinding and RxBinding are called with more
\* arguments than mapping.py declares, so any binding raises TypeError; else
\* the receive thread is started.
WorkerInit(idx, entry) ==
  IF ~entry.openable THEN [err |-> "OSError", worker |-> NoWorker]
  ELSE IF ~entry.dbc
  THEN [err |-> "RuntimeError",
        worker |-> [NoWorker EXCEPT !.idx = idx, !.bus = "open"]]
  ELSE IF entry.bindings
  THEN [err |-> "TypeError",
        worker |-> [NoWorker EXCEPT !.idx = idx, !.bus = "open"]]
  ELSE [err |-> "ok",
        worker |-> [NoWorker EXCEPT !.idx = idx, !.bus = "open", !.rx = "loop"]]

\* rclpy has created the node object and TDCANBridge.__init__ has read the
\* configuration file.
BridgeInit ==
  /\ bcfg \in BusLists
  /\ bpc = "init"
  /\ bi = 1
  /\ workers = << >>
  /\ orphans = << >>
  /\ breport = 0

\* __init__: buses = self.cfg.get('buses', []); if not buses: raise
BridgeNoBuses ==
  /\ bpc = "init"
  /\ bcfg = << >>
  /\ bpc' = "failed"
  /\ breport' = breport + 1
  /\ UNCHANGED <<bcfg, bi, workers, orphans, svars, kvars, lvars, mvars, hvars>>

\* __init__: one round of the loop over buses. An exception of the round
\* leaves __init__: the rounds after it are not run.
BridgeAddWorker ==
  /\ bpc = "init"
  /\ bi <= Len(bcfg)
  /\ IF ~bcfg[bi].named
     THEN /\ bpc' = "failed"
          /\ breport' = breport + 1
          /\ UNCHANGED <<bi, workers, orphans>>
     ELSE LET r == WorkerInit(bi, bcfg[bi])
          IN IF r.err # "ok"
             THEN /\ bpc' = "failed"
                  /\ breport' = breport + 1
                  /\ orphans' = IF r.worker.bus = "open"
                                THEN Append(orphans, r.worker) ELSE orphans
                  /\ UNCHANGED <<bi, workers>>
             ELSE /\ workers' = Append(workers, r.worker)
                  /\ bi' = bi + 1
                  /\ UNCHANGED <<bpc, breport, orphans>>
  /\ UNCHANGED <<bcfg, svars, kvars, lvars, mvars, hvars>>

\* __init__: the loop over buses has ended; the node is up and spins.
BridgeUp ==
  /\ bpc = "init"
  /\ bcfg # << >>
  /\ bi > Len(bcfg)
  /\ bpc' = "up"
  /\ UNCHANGED <<bcfg, bi, workers, orphans, breport, svars, kvars, lvars, mvars, hvars>>

\* BusWorker._rx_loop of worker i: a round of the loop publishes a frame
\* ("busy", which may last) or finds the stop event set and ends.
WorkerRx(i) ==
  /\ i \in DOMAIN workers
  /\ \/ /\ workers[i].rx = "loop"
        /\ workers' = [workers EXCEPT ![i].rx =
                         IF workers[i].stop THEN "done" ELSE "busy"]
     \/ /\ workers[i].rx = "busy"
        /\ workers' = [workers EXCEPT ![i].rx = "loop"]
  /\ UNCHANGED <<bcfg, bpc, bi, orphans, breport, svars, kvars, lvars, mvars, hvars>>

\* main(): finally: node.destroy_node() -- of a node that was constructed.
BridgeDestroyCall ==
  /\ bpc = "up"
  /\ bpc' = "destroy_set"
  /\ bi' = 1
  /\ UNCHANGED <<bcfg, workers, orphans, breport, svars, kvars, lvars, mvars, hvars>>

\* destroy_node: for w in self.workers: w.shutdown() -- self._stop.set()
WorkerShutdownSet ==
  /\ bpc = "destroy_set"
  /\ IF bi > Len(workers)
     THEN /\ bpc' = "destroyed"
          /\ UNCHANGED workers
     ELSE /\ workers' = [workers EXCEPT ![bi].stop = TRUE]
          /\ bpc' = "destroy_join"
  /\ UNCHANGED <<bcfg, bi, orphans, breport, svars, kvars, lvars, mvars, hvars>>

\* BusWorker.shutdown: try: self._rx_thread.join(timeout=1.0) except: pass
\* The join returns when the thread has ended, or after the timeout while it
\* is held in a publish.
WorkerShutdownJoin ==
  /\ bpc = "destroy_join"
  /\ workers[bi].rx \in {"done", "busy"}
  /\ bpc' = "destroy_close"
  /\ UNCHANGED <<bcfg, bi, workers, orphans, breport, svars, kvars, lvars, mvars, hvars>>

\* A faulty variant: no try/except around self.bus.shutdown().
WorkerCloseOutcome_Raises(raised) == IF raised THEN "destroy_failed" ELSE "destroy_set"

\* BusWorker.shutdown: try: self.bus.shutdown() except Exception: pass --
\* where destroy_node goes on when the driver raised or not.
WorkerCloseOutcome(raised) == "destroy_set"

\* BusWorker.shutdown: the bus handle is released; the driver may raise.
WorkerShutdownClose ==
  /\ bpc = "destroy_close"
  /\ \E raised \in BOOLEAN :
       /\ workers' = [workers EXCEPT ![bi].bus = "closed", ![bi].err = raised]
       /\ bpc' = WorkerCloseOutcome(raised)
       /\ bi' = IF bpc' = "destroy_set" THEN bi + 1 ELSE bi
       /\ breport' = IF bpc' = "destroy_set" THEN breport ELSE breport + 1
  /\ UNCHANGED <<bcfg, orphans, svars, kvars, lvars, mvars, hvars>>

\* No bridge node exists.
BridgeIdle ==
  /\ bcfg = << >>
  /\ bpc = "off"
  /\ bi = 0
  /\ workers = << >>
  /\ orphans = << >>
  /\ breport = 0

\* ------------------------------------- FrameEncoder and FrameDecoder

\* The values a payload field may carry: the physical range of the signals
\* and values outside it.
CodecValues == -1..(2 * MaxRaw + 1)

\* TxBindingConfig objects given to FrameEncoder: friendly names mapped to all
\* signals of a message, no map, and a map that leaves a signal out.
CodecTxConfigs ==
  TxConfigs \cup
  { [key |-> "raw_status", message |-> "Status1", fields |-> << >>],
    [key |-> "cmd_nm", message |-> "Cmd1", fields |-> << <<"nm", "torque">> >>],
    [key |-> "temp_only", message |-> "Status1",
     fields |-> << <<"celsius", "motor_temp_C">> >>] }

\* The payloads given to encode: by friendly names or by signal names, with
\* fields missing, and with a field no map names.
CodecPayloads ==
  UNION {[S -> CodecValues] :
           S \in {{"celsius", "rpm"}, {"celsius"}, {"motor_temp_C", "speed"},
                  {"speed"}, {"torque"}, {"nm"}}}
  \cup {[k \in {"celsius", "rpm", "note"} |-> IF k = "note" THEN 0 ELSE p[k]] :
          p \in [{"celsius", "rpm"} -> CodecValues]}
  \cup {[k \in {"motor_temp_C", "speed", "note"} |-> IF k = "note" THEN 0 ELSE p[k]] :
          p \in [{"motor_temp_C", "speed"} -> CodecValues]}

NoBinding == [key |-> "", message |-> "", fields |-> << >>]

\* No codec computation is under way.
CodecIdle ==
  /\ kpc = "off"
  /\ kenc = NoBinding
  /\ kdec = NoBinding
  /\ kpayload = EmptyMap
  /\ kframe = NoFrame
  /\ kout = EmptyMap

\* FrameEncoder.__init__ and FrameDecoder.__init__ have run for two bindings
\* and a payload is at hand.
CodecInit ==
  /\ kpc = "start"
  /\ kenc \in CodecTxConfigs
  /\ kdec \in CodecRxConfigs
  /\ kpayload \in CodecPayloads
  /\ kframe = NoFrame
  /\ kout = EmptyMap

\* FrameEncoder.encode(payload): a frame, or the error it raises.
CodecEncode ==
  /\ kpc = "start"
  /\ LET r == Encode(kenc, kpayload)
     IN /\ kpc' = IF r.err = "ok" THEN "encoded" ELSE r.err
        /\ kframe' = r.frame
  /\ UNCHANGED <<kenc, kdec, kpayload, kout, svars, bvars, lvars, mvars, hvars>>

\* FrameDecoder.decode(bytes(msg.data)) of the frame, by a decoder of the
\* frame's id.
CodecDecode ==
  /\ kpc = "encoded"
  /\ Dbc[kdec.message].frame_id = kframe.arbitration_id
  /\ kout' = Decode(kdec, kframe.data)
  /\ kpc' = "decoded"
  /\ UNCHANGED <<kenc, kdec, kpayload, kframe, svars, bvars, lvars, mvars, hvars>>

\* ------------------------------------------------- load_bridge_config

\* A path is the sequence of its parts; an absolute one starts at "/".
CfgDir == <<"/", "etc", "can">>
CfgPath == CfgDir \o <<"bridge.yaml">>

\* The files that exist.
Disk == {CfgPath, CfgDir \o <<"motor.dbc">>, <<"/", "opt", "motor.dbc">>}

\* dict.get(key, default)
Get(d, key, default) == IF key \in DOMAIN d THEN d[key] ELSE default

\* The mapping without the keys outside S.
Restrict(d, S) == [k \in DOMAIN d \cap S |-> d[k]]

\* The mapping with one more key.
With(d, key, value) == [k \in DOMAIN d \cup {key} |-> IF k = key THEN value ELSE d[k]]

\* The entries under 'tx_topics' the files of this model hold: one spec with
\* every key, one with the message alone, specs without 'dbc_message', an
\* empty mapping.
TxTopics ==
  { [cmd_topic |-> [dbc_message |-> "Cmd1", fields |-> << <<"nm", "torque">> >>,
                    topic |-> "/cmd", qos |-> "reliable"]],
    [cmd_topic |-> [dbc_message |-> "Cmd1"]],
    [cmd_topic |-> [fields |-> << <<"nm", "torque">> >>, topic |-> "/cmd"]],
    [cmd_topic |-> [dbc_message |-> "Cmd1", fields |-> << >>],
     temp_topic |-> [topic |-> "/temp"]],
    [k \in {} |-> 1] }

\* The entries under 'rx_frames': specs with and without 'dbc_message', an
\* empty spec, an empty mapping.
RxFrameSpecs ==
  { [Status1 |-> [fields |-> << <<"motor_temp_C", "celsius">> >>, topic |-> "/status"]],
    [status |-> [dbc_message |-> "Status1", topic |-> "/status"]],
    [status |-> [dbc_message |-> "Status1", fields |-> << >>],
     Cmd1 |-> [k \in {} |-> 1]],
    [k \in {} |-> 1] }

\* A complete 'buses' entry without bindings.
BaseEntry == [name |-> "can0", interface |-> "vcan0", dbc_file |-> <<"motor.dbc">>]

\* The 'buses' entries: the base entry with any of its three keys absent, with
\* an empty name or interface, with a dbc_file that does not exist or is
\* absolute; with a bit rate, an fd flag and keys the loader does not know;
\* with bindings.
LoadEntries ==
  {Restrict(BaseEntry, K) : K \in SUBSET {"name", "interface", "dbc_file"}}
  \cup {[BaseEntry EXCEPT !.name = ""], [BaseEntry EXCEPT !.interface = ""],
        [BaseEntry EXCEPT !.dbc_file = <<"gone.dbc">>],
        [BaseEntry EXCEPT !.dbc_file = <<"/", "opt", "motor.dbc">>]}
  \cup {With(BaseEntry, "bitrate", 250000), With(BaseEntry, "vendor", "acme"),
        With(With(With(BaseEntry, "bitrate", 250000), "fd", TRUE), "vendor", "acme")}
  \cup {With(BaseEntry, "tx_topics", t) : t \in TxTopics}
  \cup {With(BaseEntry, "rx_frames", r) : r \in RxFrameSpecs}
  \cup {With(With(With(With(BaseEntry, "vendor", "acme"), "termination", "on"),
                  "tx_topics", [cmd_topic |-> [dbc_message |-> "Cmd1", topic |-> "/cmd"]]),
             "rx_frames", [Status1 |-> [topic |-> "/status"]])}

\* The mappings a readable file holds: with or without 'buses', 'logging'
\* and 'qos'.
LoadDocs ==
  {[k \in {} |-> 1], [logging |-> [level |-> "debug"]]}
  \cup {[buses |-> l] : l \in UNION {[1..n -> LoadEntries] : n \in 0..MaxBuses}}
  \cup {[buses |-> <<e>>, logging |-> [level |-> "debug"], qos |-> [depth |-> "deep"]] :
          e \in LoadEntries}

NoFile == [state |-> "missing", doc |-> EmptyMap]

\* The calls of load_bridge_config: a path without file; a file that cannot
\* be opened, is no YAML, is empty, or holds a mapping.
LoadInputs ==
  {<<CfgDir \o <<"none.yaml">>, NoFile>>}
  \cup {<<CfgPath, [state |-> st, doc |-> EmptyMap]>> :
          st \in {"unreadable", "malformed", "empty"}}
  \cup {<<CfgPath, [state |-> "readable", doc |-> d]>> : d \in LoadDocs}

\* _require_keys: the required keys the mapping lacks.
RequireKeys(data, required) == required \ DOMAIN data

\* dbc_path.is_absolute()
IsAbsolute(path) == path # << >> /\ path[1] = "/"

\* dbc_path = Path(bus_entry["dbc_file"]), resolved against the directory of
\* the configuration file if relative.
ResolveDbc(cfg_path, dbc_file) ==
  IF IsAbsolute(dbc_file) THEN dbc_file
  ELSE SubSeq(cfg_path, 1, Len(cfg_path) - 1) \o dbc_file

\* metadata = {k: v for k, v in spec.items() if k not in {"dbc_message", "fields"}}
BindingMetadata(spec) == Restrict(spec, DOMAIN spec \ {"dbc_message", "fields"})

\* The loop over tx_topics: a spec without 'dbc_message' raises ValueError,
\* else one TxBindingConfig per key.
LoadTxBindings(topics) ==
  IF \E key \in DOMAIN topics : RequireKeys(topics[key], {"dbc_message"}) # {}
  THEN [err |-> "ValueError", bindings |-> EmptyMap]
  ELSE [err |-> "ok",
        bindings |-> [key \in DOMAIN topics |->
                        [key |-> key,
                         message |-> topics[key].dbc_message,
                         fields |-> Get(topics[key], "fields", << >>),
                         metadata |-> BindingMetadata(topics[key])]]]

\* A faulty variant: an inbound spec without 'dbc_message' names no message.
RxMessageName_Blank(spec, key) == Get(spec, "dbc_message", "")

\* message_name = spec.get("dbc_message", key)
RxMessageName(spec, key) == Get(spec, "dbc_message", key)

\* The loop over rx_frames: one RxBindingConfig per key.
LoadRxBindings(frames) ==
  [key \in DOMAIN frames |->
     [key |-> key,
      message |-> RxMessageName(frames[key], key),
      fields |-> Get(frames[key], "fields", << >>),
      metadata |-> BindingMetadata(frames[key])]]

\* The keys of a 'buses' entry the loader reads.
RecognizedBusKeys ==
  {"name", "interface", "dbc_file", "bitrate", "fd", "dbitrate", "filters",
   "tx_topics", "rx_frames"}

\* A faulty variant: the whole entry is kept as metadata.
BusMetadata_Whole(bus_entry) == bus_entry

\* metadata = {k: v for k, v in bus_entry.items() if k not in {...}}
BusMetadata(bus_entry) == Restrict(bus_entry, DOMAIN bus_entry \ RecognizedBusKeys)

DefaultBitrate == 500000

NoBus == [name |-> "", interface |-> "", dbc_file |-> << >>, bitrate |-> 0, fd |-> FALSE,
          tx_bindings |-> EmptyMap, rx_bindings |-> EmptyMap, metadata |-> EmptyMap]

\* One round of the loop over raw["buses"]: the BusConfig of the entry, or
\* the ValueError of _require_keys. dbitrate and filters, None by default,
\* are in no entry of this model and are left out of the BusConfig.
LoadBusConfig(cfg_path, bus_entry) ==
  IF RequireKeys(bus_entry, {"name", "interface", "dbc_file"}) # {}
  THEN [err |-> "ValueError", bus |-> NoBus]
  ELSE LET tx == LoadTxBindings(Get(bus_entry, "tx_topics", EmptyMap))
       IN IF tx.err # "ok" THEN [err |-> tx.err, bus |-> NoBus]
          ELSE [err |-> "ok",
                bus |-> [name |-> bus_entry.name,
                         interface |-> bus_entry.interface,
                         dbc_file |-> ResolveDbc(cfg_path, bus_entry.dbc_file),
                         bitrate |-> Get(bus_entry, "bitrate", DefaultBitrate),
                         fd |-> Get(bus_entry, "fd", FALSE),
                         tx_bindings |-> tx.bindings,
                         rx_bindings |->
                           LoadRxBindings(Get(bus_entry, "rx_frames", EmptyMap)),
                         metadata |-> BusMetadata(bus_entry)]]

\* load_bridge_config(path) is called.
LoadInit ==
  /\ lpc = "start"
  /\ \E input \in LoadInputs : lpath = input[1] /\ lfile = input[2]
  /\ lraw = EmptyMap
  /\ lidx = 0
  /\ lbuses = << >>
  /\ lres = NoResult

\* load_bridge_config raises: nothing is returned.
LoadRaise(err) ==
  /\ lpc' = "failed"
  /\ lres' = [NoResult EXCEPT !.err = err]

\* if not cfg_path.exists(): raise FileNotFoundError; with cfg_path.open(...):
\* raw = yaml.safe_load(stream) or {} -- open and safe_load raise for a file
\* that cannot be opened or is no YAML; an empty file loads as None.
LoadOpen ==
  /\ lpc = "start"
  /\ IF lpath \notin Disk
     THEN LoadRaise("FileNotFoundError") /\ UNCHANGED <<lraw, lidx>>
     ELSE IF lfile.state = "unreadable"
     THEN LoadRaise("PermissionError") /\ UNCHANGED <<lraw, lidx>>
     ELSE IF lfile.state = "malformed"
     THEN LoadRaise("YAMLError") /\ UNCHANGED <<lraw, lidx>>
     ELSE /\ lraw' = IF lfile.state = "empty" THEN EmptyMap ELSE lfile.doc
          /\ lidx' = 1
          /\ lpc' = "buses"
          /\ UNCHANGED lres
  /\ UNCHANGED <<lpath, lfile, lbuses, svars, bvars, kvars, mvars, hvars>>

\* A faulty variant: an entry that raises is skipped.
AfterEntryError_Skips(idx) == [pc |-> "buses", idx |-> idx + 1]

\* An exception of a round leaves load_bridge_config.
AfterEntryError(idx) == [pc |-> "failed", idx |-> idx]

\* for idx, bus_entry in enumerate(raw.get("buses", [])): one round.
LoadBus ==
  /\ lpc = "buses"
  /\ lidx <= Len(Get(lraw, "buses", << >>))
  /\ LET r == LoadBusConfig(lpath, lraw.buses[lidx])
     IN IF r.err # "ok"
        THEN /\ lpc' = AfterEntryError(lidx).pc
             /\ lidx' = AfterEntryError(lidx).idx
             /\ lres' = [NoResult EXCEPT !.err = r.err]
             /\ UNCHANGED lbuses
        ELSE /\ lbuses' = Append(lbuses, r.bus)
             /\ lidx' = lidx + 1
             /\ UNCHANGED <<lpc, lres>>
  /\ UNCHANGED <<lpath, lfile, lraw, svars, bvars, kvars, mvars, hvars>>

\* return BridgeConfig(path=cfg_path, buses=buses_cfg, logging=..., qos=...)
LoadReturn ==
  /\ lpc = "buses"
  /\ lidx > Len(Get(lraw, "buses", << >>))
  /\ lres' = [err |-> "ok", path |-> lpath, buses |-> lbuses,
              logging |-> Get(lraw, "logging", EmptyMap),
              qos |-> Get(lraw, "qos", EmptyMap)]
  /\ lpc' = "returned"
  /\ UNCHANGED <<lpath, lfile, lraw, lidx, lbuses, svars, bvars, kvars, mvars, hvars>>

\* No load_bridge_config call is under way.
LoadIdle ==
  /\ lpc = "off"
  /\ lpath = << >>
  /\ lfile = NoFile
  /\ lraw = EmptyMap
  /\ lidx = 0
  /\ lbuses = << >>
  /\ lres = NoResult

\* ------------------------------------------------------------- MotorHub

\* The cmd_* operations of the menu that send one command, and the method
\* of the bus each of them calls.
HubCmds == {"cmd_enable", "cmd_disable", "cmd_set_zero", "cmd_clear_faults",
            "cmd_save_config"}
BusMethod(cmd) ==
  IF cmd = "cmd_enable" THEN "enable"
  ELSE IF cmd = "cmd_disable" THEN "disable"
  ELSE "transmit"

HubResult(op, err) == [op |-> op, err |-> err]

\* MotorHub.__init__: self.bus = None; self.connected = False
HubInit ==
  hub = [bus |-> "none", connected |-> FALSE, calls |-> << >>, n |-> 0,
         last |-> HubResult("init", "ok")]

\* No MotorHub exists.
HubIdle ==
  hub = [bus |-> "none", connected |-> FALSE, calls |-> << >>, n |-> -1,
         last |-> HubResult("none", "ok")]

\* connect(): RobstrideBus(...) raises and self.bus stays what it was, or
\* bus.connect(handshake=True) raises on the new object, or both succeed;
\* an exception is caught and connected is set to False.
HubConnect ==
  /\ hub.n >= 0 /\ hub.n < MaxHubOps
  /\ \E outcome \in {"constructor_raises", "connect_raises", "ok"} :
       hub' = [hub EXCEPT
                 !.n = @ + 1,
                 !.bus = IF outcome = "constructor_raises" THEN @ ELSE "object",
                 !.calls = IF outcome = "constructor_raises" THEN @
                           ELSE Append(@, "connect"),
                 !.connected = (outcome = "ok"),
                 !.last = HubResult("connect", IF outcome = "ok" THEN "ok" ELSE "caught")]
  /\ UNCHANGED <<svars, bvars, kvars, lvars, mvars>>

\* disconnect(): if self.bus: bus.disable (its exception is dropped), then
\* bus.disconnect(), then connected = False; an exception of
\* bus.disconnect() leaves disconnect() before the assignment.
HubDisconnect ==
  /\ hub.n >= 0 /\ hub.n < MaxHubOps
  /\ IF hub.bus = "none"
     THEN hub' = [hub EXCEPT !.n = @ + 1, !.last = HubResult("disconnect", "ok")]
     ELSE \E raised \in BOOLEAN :
            hub' = [hub EXCEPT
                      !.n = @ + 1,
                      !.calls = Append(Append(@, "disable"), "disconnect"),
                      !.connected = IF raised THEN @ ELSE FALSE,
                      !.last = HubResult("disconnect",
                                         IF raised THEN "raised" ELSE "ok")]
  /\ UNCHANGED <<svars, bvars, kvars, lvars, mvars>>

\* A faulty variant: the check passes whatever the flag holds.
CheckConnection_Always(h) == TRUE

\* _check_connection(): if not self.connected: ... return False; return True
CheckConnection(h) == h.connected

\* cmd_enable .. cmd_save_config: if not self._check_connection(): return;
\* else the one call of the bus, which may raise. cmd_set_zero asks for a
\* confirmation first; cmd_clear_faults catches the exception.
HubCmd(cmd, confirm) ==
  /\ hub.n >= 0 /\ hub.n < MaxHubOps
  /\ IF ~CheckConnection(hub) \/ (cmd = "cmd_set_zero" /\ ~confirm)
     THEN hub' = [hub EXCEPT !.n = @ + 1, !.last = HubResult(cmd, "ok")]
     ELSE \E raised \in BOOLEAN :
            hub' = [hub EXCEPT
                      !.n = @ + 1,
                      !.calls = Append(@, BusMethod(cmd)),
                      !.last = HubResult(cmd,
                                 IF raised /\ cmd # "cmd_clear_faults"
                                 THEN "raised" ELSE "ok")]
  /\ UNCHANGED <<svars, bvars, kvars, lvars, mvars>>

\* ------------------------------------------ CanBusService objects side by side

\* The CanBusService objects of a process with two channels, by cfg.name.
Channels == {"can0", "can1"}

\* A faulty variant: the containers and handles are class attributes, made once.
NewObjects_Shared(c) == "can0"

\* CanBusService.__init__: self.bus = ..., self._tx_bindings = {},
\* self._rx_bindings = {}, self._stop = threading.Event() -- the objects
\* are made anew by each call and belong to the instance made.
NewObjects(c) == c

\* CanBusService.__init__ has run once per channel. For each instance: the
\* objects its attributes refer to (ref), the thread in _rx_thread (cur:
\* none, live or dead), its receive loops still running, the calls made on
\* it, the outcome of its last send and what became of the last frame it
\* read. For each object: the keys of the dictionaries, the event's
\* flag, the state of the bus handle.
ChannelsInit ==
  chan = [ref |-> [c \in Channels |-> NewObjects(c)],
          tx |-> [o \in Channels |-> {}],
          rx |-> [o \in Channels |-> {}],
          stop |-> [o \in Channels |-> FALSE],
          bus |-> [o \in Channels |-> "open"],
          cur |-> [c \in Channels |-> "none"],
          live |-> [c \in Channels |-> 0],
          calls |-> [c \in Channels |-> 0],
          sent |-> [c \in Channels |-> "none"],
          seen |-> [c \in Channels |-> "none"]]

\* A call on channel c begins: one more call.
ChanCall(c) == chan.calls[c] < MaxCalls

ChanCalled(c) == [chan EXCEPT !.calls[c] = @ + 1]

\* register_tx_binding(binding) on channel c.
ChanRegisterTx(c, binding) ==
  /\ ChanCall(c)
  /\ chan' = [ChanCalled(c) EXCEPT !.tx[chan.ref[c]] = @ \cup {binding.key}]
  /\ UNCHANGED <<svars, bvars, kvars, lvars, hvars>>

\* register_rx_binding(binding, handler) on channel c: the entry of the
\* message's frame id is replaced.
ChanRegisterRx(c, binding) ==
  /\ ChanCall(c)
  /\ chan' = [ChanCalled(c) EXCEPT !.rx[chan.ref[c]] =
                {k \in @ : Dbc[RxConfigOf(k).message].frame_id
                             # Dbc[binding.message].frame_id} \cup {binding.key}]
  /\ UNCHANGED <<svars, bvars, kvars, lvars, hvars>>

\* start() on channel c: returns at once if the thread in _rx_thread is
\* alive, else clears the event and starts a new thread.
ChanStart(c) ==
  /\ ChanCall(c)
  /\ IF chan.cur[c] = "live"
     THEN chan' = ChanCalled(c)
     ELSE /\ chan.live[c] < MaxThreads
          /\ chan' = [ChanCalled(c) EXCEPT !.stop[chan.ref[c]] = FALSE,
                                           !.cur[c] = "live",
                                           !.live[c] = @ + 1]
  /\ UNCHANGED <<svars, bvars, kvars, lvars, hvars>>

\* shutdown() on channel c: sets the event, joins the thread in _rx_thread
\* (it ends in time, or the join times out), forgets it, closes the bus.
ChanShutdown(c) ==
  /\ ChanCall(c)
  /\ \E ended \in BOOLEAN :
       /\ ended => chan.cur[c] = "live"
       /\ chan' = [ChanCalled(c) EXCEPT !.stop[chan.ref[c]] = TRUE,
                                        !.cur[c] = "none",
                                        !.live[c] = IF ended THEN @ - 1 ELSE @,
                                        !.bus[chan.ref[c]] = "closed"]
  /\ UNCHANGED <<svars, bvars, kvars, lvars, hvars>>

\* send(key, payload) on channel c: raises for an unknown key, a payload that
\* does not encode or a bus that does not take the frame, else the frame is
\* written; no attribute of the service is written.
ChanSend(c, key) ==
  /\ ChanCall(c)
  /\ \E written \in BOOLEAN :
       /\ written => (key \in chan.tx[chan.ref[c]] /\ chan.bus[chan.ref[c]] = "open")
       /\ chan' = [ChanCalled(c) EXCEPT !.sent[c] = IF written THEN "ok" ELSE "error"]
  /\ UNCHANGED <<svars, bvars, kvars, lvars, hvars>>

\* A round of a receive loop of channel c that reads frame f: a frame without
\* binding is skipped, a frame that decodes goes to its handler, a decode
\* failure is logged.
ChanRxFrame(c, f) ==
  /\ chan.live[c] > 0
  /\ chan.bus[chan.ref[c]] = "open"
  /\ LET keys == {k \in chan.rx[chan.ref[c]] : Dbc[RxConfigOf(k).message].frame_id = f.id}
     IN chan' = [chan EXCEPT !.seen[c] =
                   IF keys = {} THEN "skipped"
                   ELSE IF \A k \in keys : DecodeOk(Dbc[RxConfigOf(k).message], f)
                   THEN "handled"
                   ELSE "decode_error"]
  /\ UNCHANGED <<svars, bvars, kvars, lvars, hvars>>

\* A receive loop of channel c finds the event set and ends: the thread in
\* _rx_thread, or one a timed-out join left behind.
ChanLoopExit(c) ==
  /\ chan.live[c] > 0
  /\ chan.stop[chan.ref[c]]
  /\ \E current \in BOOLEAN :
       /\ current => chan.cur[c] = "live"
       /\ ~current => chan.live[c] > (IF chan.cur[c] = "live" THEN 1 ELSE 0)
       /\ chan' = [chan EXCEPT !.live[c] = @ - 1,
                               !.cur[c] = IF current THEN "dead" ELSE @]
  /\ UNCHANGED <<svars, bvars, kvars, lvars, hvars>>

ChannelsStart == ServiceInit /\ BridgeIdle /\ CodecIdle /\ LoadIdle /\ ChannelsInit /\ HubIdle

ChannelsNext ==
  \E c \in Channels :
    \/ \E b \in TxConfigs : ChanRegisterTx(c, b)
    \/ \E b \in RxConfigs : ChanRegisterRx(c, b)
    \/ ChanStart(c)
    \/ ChanShutdown(c)
    \/ \E key \in SendKeys : ChanSend(c, key)
    \/ \E f \in RxFrames : ChanRxFrame(c, f)
    \/ ChanLoopExit(c)

\* Two CanBusService objects in one process, each used by its own callers.
ChannelsSpec == ChannelsStart /\ [][ChannelsNext]_vars

\* No further CanBusService object exists.
ChannelsIdle == chan = << >>

LoadStart == ServiceInit /\ BridgeIdle /\ CodecIdle /\ LoadInit /\ ChannelsIdle /\ HubIdle

LoadNext == LoadOpen \/ LoadBus \/ LoadReturn

\* One call of load_bridge_config.
LoadSpec == LoadStart /\ [][LoadNext]_vars

CodecStart == ServiceInit /\ BridgeIdle /\ CodecInit /\ LoadIdle /\ ChannelsIdle /\ HubIdle

CodecNext == CodecEncode \/ CodecDecode

\* One FrameEncoder and one FrameDecoder applied to a payload.
CodecSpec == CodecStart /\ [][CodecNext]_vars

BridgeStart == BridgeInit /\ ServiceInit /\ CodecIdle /\ LoadIdle /\ ChannelsIdle /\ HubIdle

BridgeNext ==
  \/ BridgeNoBuses \/ BridgeAddWorker \/ BridgeUp
  \/ \E i \in 1..MaxBuses : WorkerRx(i)
  \/ BridgeDestroyCall \/ WorkerShutdownSet \/ WorkerShutdownJoin
  \/ WorkerShutdownClose

\* One TDCANBridge node: its construction from a configuration, its workers'
\* receive threads and its destruction.
BridgeSpec == BridgeStart /\ [][BridgeNext]_vars

\* ------------------------------------------------------- specifications

Init == ServiceInit /\ BridgeIdle /\ CodecIdle /\ LoadIdle /\ ChannelsIdle /\ HubIdle

\* The calls a client thread makes on the service, step by step.
ClientNext(c) ==
  \/ \E b \in TxConfigs : RegisterTx(c, b)
  \/ StartCall(c) \/ StartCheck(c) \/ StartNew(c) \/ StartRun(c)
  \/ ShutdownCall(c) \/ ShutdownSet(c) \/ ShutdownCheck(c) \/ ShutdownJoin(c)
  \/ ShutdownClear(c) \/ ShutdownClose(c)
  \/ \E k \in SendKeys, p \in Payloads : SendCall(c, k, p)
  \/ SendEncode(c) \/ SendWrite(c)
  \/ Resume(c)

\* The receive loop of a thread on a bus that delivers nothing.
QuietLoopNext(t) == RxBegin(t) \/ RxLoop(t) \/ RxPollTimeout(t) \/ RxFinally(t)

\* The receive loop of a thread on a bus that delivers frames.
BusyLoopNext(t) ==
  \/ \E f \in RxFrames : RxPollFrame(t, f)
  \/ RxLookup(t) \/ RxDecode(t) \/ RxHandler(t)

Next ==
  \/ ClientNext("c1")
  \/ \E b \in RxConfigs : RegisterRx("c1", b)
  \/ \E t \in Threads : QuietLoopNext(t) \/ BusyLoopNext(t)

\* One CanBusService used by one client thread, with its receive loops and
\* the frames of the bus.
Spec == Init /\ [][Next]_vars

ConcNext ==
  \/ \E c \in Callers : ClientNext(c)
  \/ \E t \in Threads : QuietLoopNext(t)

\* One CanBusService used by two concurrent client threads, on a quiet bus.
ConcSpec == Init /\ [][ConcNext]_vars

\* The registrations a client thread makes, of bindings the schema knows and
\* of bindings on a message it lacks.
RegisterNext(c) ==
  \/ \E b \in CodecTxConfigs \cup GhostTxConfigs : RegisterTx(c, b)
  \/ \E b \in CodecRxConfigs \cup GhostRxConfigs : RegisterRx(c, b)
  \/ Resume(c)

\* One CanBusService on which one client thread registers bindings.
RegisterSpec == Init /\ [][RegisterNext("c1")]_vars

\* The lifecycle calls of one client thread: registration of inbound
\* bindings, start() and shutdown().
LifecycleNext(c) ==
  \/ \E b \in RxConfigs : RegisterRx(c, b)
  \/ StartCall(c) \/ StartCheck(c) \/ StartNew(c) \/ StartRun(c)
  \/ ShutdownCall(c) \/ ShutdownSet(c) \/ ShutdownCheck(c) \/ ShutdownJoin(c)
  \/ ShutdownClear(c) \/ ShutdownClose(c)
  \/ Resume(c)

LiveNext ==
  \/ LifecycleNext("c1")
  \/ \E t \in Threads : QuietLoopNext(t) \/ BusyLoopNext(t)

\* A thread that runs shutdown() goes on to its next statement; the join is
\* bounded by its timeout.
ShutdownProgress(c) ==
  /\ WF_vars(ShutdownSet(c)) /\ WF_vars(ShutdownCheck(c))
  /\ WF_vars(ShutdownJoin(c)) /\ WF_vars(ShutdownClear(c))
  /\ WF_vars(ShutdownClose(c))

\* A started receive thread goes on through the statements of its loop; the
\* poll is bounded by its timeout. A call of a handler is not bounded.
LoopProgress(t) ==
  /\ WF_vars(RxBegin(t)) /\ WF_vars(RxLoop(t))
  /\ WF_vars(RxPollTimeout(t) \/ \E f \in RxFrames : RxPollFrame(t, f))
  /\ WF_vars(RxLookup(t)) /\ WF_vars(RxDecode(t)) /\ WF_vars(RxFinally(t))

\* One CanBusService started and shut down by one client thread, with
\* threads that make progress and handlers that may block.
LiveSpec ==
  /\ Init /\ [][LiveNext]_vars
  /\ ShutdownProgress("c1")
  /\ \A t \in Threads : LoopProgress(t)

RaceNext ==
  \/ \E b \in TxConfigs : RegisterTx("c1", b)
  \/ \E b \in RxConfigs : RegisterRx("c1", b)
  \/ StartCall("c1") \/ StartCheck("c1") \/ StartNew("c1") \/ StartRun("c1")
  \/ \E k \in SendKeys : SendCall("c1", k, [torque |-> 1])
  \/ SendEncode("c1") \/ SendWrite("c1")
  \/ Resume("c1")
  \/ \E t \in Threads : RxBegin(t) \/ RxLoop(t) \/ RxPollTimeout(t) \/ BusyLoopNext(t)

\* One CanBusService whose client thread registers, starts and sends while
\* the receive loops read frames; nobody shuts it down, so no loop is told
\* to stop.
RaceSpec == Init /\ [][RaceNext]_vars

StartRaceNext ==
  \/ \E b \in RxConfigs : RegisterRx("c1", b)
  \/ \E c \in Callers :
       StartCall(c) \/ StartCheck(c) \/ StartNew(c) \/ StartRun(c) \/ Resume(c)
  \/ \E t \in Threads : RxBegin(t) \/ RxLoop(t) \/ RxPollTimeout(t) \/ BusyLoopNext(t)

\* One CanBusService that two threads may start at the same time, with the
\* frames of the bus.
StartRaceSpec == Init /\ [][StartRaceNext]_vars

\* One CanBusService on which a client registers several inbound bindings of
\* the same messages, before and after start(), while the loop dispatches.
ReplaceNext ==
  \/ \E b \in CodecRxConfigs : RegisterRx("c1", b)
  \/ StartCall("c1") \/ StartCheck("c1") \/ StartNew("c1") \/ StartRun("c1")
  \/ Resume("c1")
  \/ \E t \in Threads : RxBegin(t) \/ RxLoop(t) \/ RxPollTimeout(t) \/ BusyLoopNext(t)
ReplaceSpec == Init /\ [][ReplaceNext]_vars

\* One CanBusService whose outbound bindings TopicTxBinding objects
\* register while the executor thread delivers messages to their callbacks.
CbNext ==
  \/ \E b \in TxConfigs : RegisterTx("c1", b)
  \/ \E k \in SendKeys, m \in RosMsgs : CbCall("c2", k, m)
  \/ CbEncode("c2") \/ CbWrite("c2")
  \/ \E c \in Callers : Resume(c)
CbSpec == Init /\ [][CbNext]_vars

HubStart == ServiceInit /\ BridgeIdle /\ CodecIdle /\ LoadIdle /\ ChannelsIdle /\ HubInit

HubNext ==
  \/ HubConnect \/ HubDisconnect
  \/ \E cmd \in HubCmds, confirm \in BOOLEAN : HubCmd(cmd, confirm)

\* One MotorHub driven from its menu: connect, disconnect and the commands,
\* in any order.
HubSpec == HubStart /\ [][HubNext]_vars

ExitNext ==
  \/ LifecycleNext("c1")
  \/ \E t \in Threads : QuietLoopNext(t) \/ BusyLoopNext(t) \/ RxEscape(t)

\* One CanBusService started and shut down by one client thread, whose
\* handlers may also raise exceptions the loop does not catch.
ExitSpec == Init /\ [][ExitNext]_vars

\* ------------------------------------------------------------- properties

\* The arbitration id belongs to a message of the schema.
InSchema(id) == \E n \in DOMAIN Dbc : Dbc[n].frame_id = id

\* The frame's bytes decode under the schema: its id is a message's and it is
\* not shorter than that message.
WellFormed(msg) ==
  \E n \in DOMAIN Dbc : Dbc[n].frame_id = msg.id /\ msg.dlc >= Dbc[n].length

\* C1: a receive loop that decodes a frame with a registered id either hands
\* the well-formed frame to the handler, or drops the malformed one: it logs
\* the error, invokes no handler and is back at the head of its loop, alive,
\* with the channel's state as it was. A loop ends only at its head, with the
\* stop flag set.
C1_BadFrameDropped ==
  [][\A t \in Threads :
       /\ (tpc[t] = "decode" /\ tpc'[t] # "decode") =>
            IF WellFormed(tmsg[t])
            THEN /\ tpc'[t] = "handler"
                 /\ log' = Append(log, HandledEntry(tmsg[t].id, tentry[t],
                                      Decode(RxConfigOf(tentry[t]), tmsg[t].data)))
            ELSE /\ tpc'[t] = "loop"
                 /\ log' = Append(log, ErrorEntry("decode_error", tmsg[t].id))
                 /\ UNCHANGED <<stop, bus, rx_thread, rx_bindings, tx_bindings,
                                notifier, sent>>
       /\ (tpc[t] # "finally" /\ tpc'[t] = "finally") => (tpc[t] = "loop" /\ stop)
    ]_vars

\* C1 happens: one receive loop has logged a decode error and then handed a
\* later frame to its handler.
C1_Witness ==
  /\ nthreads = 1
  /\ \E i, j \in DOMAIN log :
       i < j /\ log[i].kind = "decode_error" /\ log[j].kind = "handled"

\* C2: a receive loop that looks up a frame whose id has no registered
\* decoder goes back to the head of its loop, and the log (handler
\* invocations and errors), both registries, the stop flag, the bus handle,
\* the recorded thread and the notifiers are as before.
C2_UnknownFrameIgnored ==
  [][\A t \in Threads :
       (tpc[t] = "lookup" /\ tpc'[t] # "lookup"
          /\ tmsg[t].id \notin DOMAIN rx_bindings) =>
         /\ tpc'[t] = "loop"
         /\ UNCHANGED <<log, rx_bindings, tx_bindings, stop, bus, rx_thread,
                        notifier, sent>>
    ]_vars

\* C2 happens: a loop is back at its head after a frame of an id outside the
\* schema, and nothing was handled or logged.
C2_Witness ==
  \E t \in Threads :
    /\ tpc[t] = "loop"
    /\ tmsg[t] # NoMsg
    /\ ~InSchema(tmsg[t].id)
    /\ log = << >>
    /\ ~stop

\* C3: with one client thread, every call of shutdown() returns normally, and
\* when it returns the stop flag is set, no receive thread is recorded and the
\* bus handle is closed -- for the first call and for every call after it.
C3_ShutdownIdempotent ==
  [][\A c \in Callers :
       (cpc[c] # "returned" /\ cpc'[c] = "returned" /\ cres'[c].op = "shutdown") =>
         /\ cres'[c].err = "ok"
         /\ stop' /\ rx_thread' = 0 /\ bus' = "closed"
    ]_vars

\* C3 happens: two calls of shutdown() in a row have returned.
C3_Witness ==
  /\ ncalls = 2
  /\ sd_returned = 2
  /\ cpc["c1"] = "returned"
  /\ cres["c1"] = Result("shutdown", "ok", "")

\* C4: once a call of shutdown() has returned, no step writes a frame to the
\* bus, and every send() that ends, ends with an error.
C4_SendAfterShutdownFails ==
  [][sd_returned >= 1 =>
       /\ sent' = sent
       /\ \A c \in Callers :
            (cpc[c] \in {"send_encode", "send_write"} /\ cpc'[c] = "returned") =>
              cres'[c].err # "ok"
    ]_vars

\* C4 happens: after a shutdown() that returned, a send() with a registered
\* key and a payload that encodes has failed at the bus write.
C4_Witness ==
  /\ sd_returned = 1
  /\ ncalls = 2
  /\ sent = << >>
  /\ cpc["c1"] = "returned"
  /\ cres["c1"] = Result("send", "CanOperationError", "")
  /\ cpc["c2"] = "idle"

\* C5: a send() whose key is not in the outbound registry ends with the
\* unknown-binding error naming the key, whatever its payload; no frame is
\* written and the registries, the stop flag, the recorded thread, the
\* threads and the bus handle are as before.
C5_UnknownKeyRejected ==
  [][\A c \in Callers :
       (cpc[c] = "send_encode" /\ cpc'[c] # "send_encode"
          /\ cargs[c].key \notin DOMAIN tx_bindings) =>
         /\ cpc'[c] = "returned"
         /\ cres'[c] = Result("send", "UnknownBinding", cargs[c].key)
         /\ cframe'[c] = NoFrame
         /\ UNCHANGED <<sent, tx_bindings, rx_bindings, stop, rx_thread, tpc, bus>>
    ]_vars

\* C5 happens: a send() with the key "unknown_key" has been rejected while
\* bindings are registered and the channel is running.
C5_Witness ==
  \E c \in Callers :
    /\ cpc[c] = "returned"
    /\ cres[c] = Result("send", "UnknownBinding", "unknown_key")
    /\ tx_bindings # EmptyMap
    /\ \E t \in Threads : Alive(tpc[t])
    /\ sent = << >>

\* The mapped friendly fields the payload lacks.
MissingFields(binding, payload) ==
  {binding.fields[i][1] : i \in DOMAIN binding.fields} \ DOMAIN payload

\* C6: a send() on a binding with a non-empty friendly->signal map, with a
\* payload that lacks a mapped field, ends with the missing-field error naming
\* a field the payload lacks; the call is over without a frame and nothing is
\* written to the bus.
C6_MissingFieldRejected ==
  [][\A c \in Callers :
       (cpc[c] = "send_encode" /\ cpc'[c] # "send_encode"
          /\ cargs[c].key \in DOMAIN tx_bindings
          /\ tx_bindings[cargs[c].key].fields # << >>
          /\ MissingFields(tx_bindings[cargs[c].key], cargs[c].payload) # {}) =>
         /\ cpc'[c] = "returned"
         /\ cres'[c].op = "send"
         /\ cres'[c].err = "MissingField"
         /\ cres'[c].field \in
              MissingFields(tx_bindings[cargs[c].key], cargs[c].payload)
         /\ cframe'[c] = NoFrame
         /\ sent' = sent
    ]_vars

\* C6 happens: send("temp_report", {celsius: 1}) has failed naming rpm.
C6_Witness ==
  \E c \in Callers :
    /\ cpc[c] = "returned"
    /\ cres[c] = Result("send", "MissingField", "rpm")
    /\ sent = << >>

\* A bus entry BusWorker can be built from.
GoodEntry(e) == e.named /\ e.openable /\ e.dbc /\ ~e.bindings

\* C7: when the construction of the bridge is over for a configuration of
\* several channels of which exactly one cannot be opened, every other channel
\* has a started worker and exactly one failure was reported.
C7_OtherChannelsStillStart ==
  ( /\ bpc \in {"up", "failed"}
    /\ Len(bcfg) >= 2
    /\ Cardinality({i \in DOMAIN bcfg : ~bcfg[i].openable}) = 1
    /\ \A i \in DOMAIN bcfg : bcfg[i].named /\ (bcfg[i].openable => GoodEntry(bcfg[i])) )
  =>
  ( /\ \A i \in DOMAIN bcfg :
         bcfg[i].openable =>
           \E w \in DOMAIN workers : workers[w].idx = i /\ workers[w].rx # "none"
    /\ breport = 1 )

\* C8: destroy_node ends only after the shutdown of every worker: each has
\* its stop flag set and its bus handle released, whatever its receive thread
\* was doing and whichever shutdown raised.
C8_DestroyShutsDownAll ==
  bpc \notin {"init", "up", "failed", "destroy_set", "destroy_join", "destroy_close"} =>
    \A i \in DOMAIN workers : workers[i].stop /\ workers[i].bus = "closed"

\* C8 happens: the bridge of two workers is destroyed, the driver raised
\* while the first was shut down, and the second was shut down after it.
C8_Witness ==
  /\ bpc = "destroyed"
  /\ Len(workers) = 2
  /\ workers[1].err
  /\ workers[2].stop /\ workers[2].bus = "closed"

\* C9: at most one receive loop of the channel is alive.
C9_AtMostOneRxLoop == Cardinality({t \in Threads : Alive(tpc[t])}) <= 1

\* C10: the step that closes the bus handle is taken only when no receive
\* loop of the channel is alive and no notifier is running.
C10_ClosedOnlyAfterLoopStopped ==
  [][(bus = "open" /\ bus' = "closed") =>
       \A t \in Threads : ~Alive(tpc[t]) /\ ~notifier[t]
    ]_vars

\* The pairs of a binding's field map.
FieldPairs(fields) == {<<fields[i][1], fields[i][2]>> : i \in DOMAIN fields}

\* The inbound binding is on the frame of the outbound one and its
\* signal->friendly map is the inverse of the friendly->signal map.
InverseMaps(tx, rx) ==
  /\ tx.message = rx.message
  /\ FieldPairs(rx.fields) = {<<q[2], q[1]>> : q \in FieldPairs(tx.fields)}

\* The payload fields an outbound binding captures: the mapped friendly
\* names, or with an empty map every field.
MappedFields(tx, payload) ==
  IF tx.fields = << >> THEN DOMAIN payload
  ELSE {q[1] : q \in FieldPairs(tx.fields)}

\* The signal that carries a captured field.
SignalOf(tx, f) ==
  IF tx.fields = << >> THEN f
  ELSE (CHOOSE q \in FieldPairs(tx.fields) : q[1] = f)[2]

Distance(a, b) == IF a >= b THEN a - b ELSE b - a

\* C18: when a payload has been encoded by an outbound binding and the frame
\* decoded by an inbound binding on the same frame with the inverse map (both
\* maps empty included), the decoded dictionary has exactly the captured
\* fields of the payload as keys and each value is the payload's value to
\* within half a quantization step of its signal.
C18_RoundTrip ==
  (kpc = "decoded" /\ InverseMaps(kenc, kdec)) =>
    /\ DOMAIN kout = MappedFields(kenc, kpayload)
    /\ \A f \in DOMAIN kout :
         2 * Distance(kout[f], kpayload[f]) <= Signals[SignalOf(kenc, f)].scale

\* C18 happens: a payload with a field outside the map went through a mapped
\* binding and its inverse, and one value came back quantized.
C18_Witness ==
  /\ kpc = "decoded"
  /\ InverseMaps(kenc, kdec)
  /\ kenc.fields # << >>
  /\ "note" \in DOMAIN kpayload
  /\ kout["celsius"] # kpayload["celsius"]
  /\ kout["rpm"] = kpayload["rpm"]

\* C20: a decoded dictionary is, for a binding with an empty map, the decoded
\* signals of the frame under their schema names; for a binding with a map,
\* its keys are exactly the mapped friendly names and each carries the
\* decoded value of the signal mapped to it.
C20_DecodeForwardsByMap ==
  kpc = "decoded" =>
    LET signals == Dbc[kdec.message].signals
    IN IF kdec.fields = << >>
       THEN /\ DOMAIN kout = signals
            /\ \A s \in signals : kout[s] = RawToScaled(s, kframe.data[s])
       ELSE /\ DOMAIN kout = {q[2] : q \in FieldPairs(kdec.fields)}
            /\ \A q \in FieldPairs(kdec.fields) :
                 kout[q[2]] = RawToScaled(q[1], kframe.data[q[1]])

\* C20 happens: a frame of two signals was decoded by a binding that maps
\* one of them, and only that one was forwarded.
C20_Witness ==
  /\ kpc = "decoded"
  /\ kdec.key = "status"
  /\ DOMAIN kout = {"celsius"}
  /\ kout["celsius"] > 0
  /\ kframe.data["speed"] > 0

\* C11: at most one caller is inside the write on the bus handle.
C11_WritesExclusive == Cardinality({c \in Callers : cpc[c] = "send_write"}) <= 1

\* C14: a send() that has entered the bus write leaves it in one step and is
\* over: either its frame was written and it returned, or nothing was written
\* and the write error is the outcome of the call. No step writes more than
\* one frame, and there are never more frames written than calls made.
C14_WriteErrorPropagates ==
  [][/\ \A c \in Callers :
          (cpc[c] = "send_write" /\ cpc'[c] # "send_write") =>
            /\ cpc'[c] = "returned"
            /\ cres'[c].op = "send"
            /\ \/ sent' = Append(sent, cframe[c]) /\ cres'[c].err = "ok"
               \/ sent' = sent /\ cres'[c].err = "CanOperationError"
     /\ Len(sent') <= Len(sent) + 1
     /\ Len(sent') <= ncalls'
    ]_vars

\* C14 happens: a send() on the open bus of a channel that was never shut
\* down has failed at the write, and nothing was written.
C14_Witness ==
  \E c \in Callers :
    /\ cpc[c] = "returned"
    /\ cres[c] = Result("send", "CanOperationError", "")
    /\ bus = "open"
    /\ sd_returned = 0
    /\ ncalls = 1
    /\ sent = << >>

\* C15: the step in which a send() ends with an error (unknown binding,
\* missing field, schema encode error, bus write error) leaves both
\* registries, the stop flag, the recorded thread, every receive loop, the
\* notifiers, the bus handle and the frames written as they were.
C15_SendErrorsStayLocal ==
  [][\A c \in Callers :
       (cpc[c] \in {"send_encode", "send_write"} /\ cpc'[c] = "returned"
          /\ cres'[c].err # "ok") =>
         UNCHANGED <<tx_bindings, rx_bindings, stop, rx_thread, tpc, notifier,
                     bus, sent>>
    ]_vars

\* C15 happens: on a running channel one client's send() has failed in the
\* schema encoder and the other client's send() has written its frame.
C15_Witness ==
  /\ cpc["c1"] = "returned" /\ cres["c1"] = Result("send", "EncodeError", "")
  /\ cpc["c2"] = "returned" /\ cres["c2"] = Result("send", "ok", "")
  /\ \E t \in Threads : tpc[t] = "poll"
  /\ ~stop
  /\ Len(sent) = 1

\* C19: the frame a send() has built carries the frame id and the
\* extended-id flag of the schema message its binding names, and its data is,
\* signal by signal, the schema's raw value of the payload field mapped to
\* the signal; a send() returns normally only by writing that frame.
C19_FrameFollowsSchema ==
  [][\A c \in Callers :
       /\ (cpc[c] = "send_encode" /\ cpc'[c] = "send_write") =>
            LET b == tx_bindings[cargs[c].key]
                m == Dbc[b.message]
            IN /\ cframe'[c].arbitration_id = m.frame_id
               /\ cframe'[c].is_extended_id = m.is_extended_frame
               /\ DOMAIN cframe'[c].data = m.signals
               /\ \A f \in MappedFields(b, cargs[c].payload) :
                    cframe'[c].data[SignalOf(b, f)] =
                      ScaledToRaw(SignalOf(b, f), cargs[c].payload[f])
       /\ (cpc[c] = "send_write" /\ cpc'[c] = "returned" /\ cres'[c].err = "ok") =>
            sent' = Append(sent, cframe[c])
    ]_vars

\* C19 happens: a Status1 frame and an extended Cmd1 frame were transmitted.
C19_Witness ==
  /\ Len(sent) = 2
  /\ sent[1].arbitration_id = Dbc.Status1.frame_id /\ ~sent[1].is_extended_id
  /\ sent[2].arbitration_id = Dbc.Cmd1.frame_id /\ sent[2].is_extended_id

Stored(old, new, key, value) ==
  /\ DOMAIN new = DOMAIN old \cup {key}
  /\ new[key] = value
  /\ \A k \in DOMAIN old \ {key} : new[k] = old[k]

\* C17: a registration ends either with the lookup error and both registries
\* as they were, or normally with one binding of a schema message stored and
\* every other entry kept; no binding whose message the schema lacks is ever
\* in a registry, and a registration of a binding whose message the schema
\* has succeeds in every state, so also after a failed one.
C17_BadBindingRejected ==
  [][\A c \in Callers :
       (cpc[c] = "idle" /\ cpc'[c] = "returned"
          /\ cres'[c].op \in {"register_tx", "register_rx"}) =>
         /\ \/ /\ cres'[c].err = "KeyError"
               /\ UNCHANGED <<tx_bindings, rx_bindings>>
            \/ /\ cres'[c] = Result("register_tx", "ok", "")
               /\ \E b \in CodecTxConfigs : Stored(tx_bindings, tx_bindings', b.key, b)
               /\ UNCHANGED rx_bindings
            \/ /\ cres'[c] = Result("register_rx", "ok", "")
               /\ \E b \in CodecRxConfigs :
                    Stored(rx_bindings, rx_bindings', Dbc[b.message].frame_id, b.key)
               /\ UNCHANGED tx_bindings
         /\ \A k \in DOMAIN tx_bindings' : tx_bindings'[k].message \in DOMAIN Dbc
         /\ \A id \in DOMAIN rx_bindings' : InSchema(id)
         /\ \A b \in CodecTxConfigs \cup GhostTxConfigs :
              RegisterTx(c, b) => (cres'[c].err = "ok" <=> b.message \in DOMAIN Dbc)
         /\ \A b \in CodecRxConfigs \cup GhostRxConfigs :
              RegisterRx(c, b) => (cres'[c].err = "ok" <=> b.message \in DOMAIN Dbc)
    ]_vars

\* C17 happens: with bindings registered in both registries, a registration on
\* a message the schema lacks has failed and the registries hold what they held.
C17_Witness ==
  /\ cpc["c1"] = "returned"
  /\ cres["c1"] = Result("register_tx", "KeyError", "")
  /\ DOMAIN tx_bindings = {"temp_report"}
  /\ DOMAIN rx_bindings = {Dbc.Status1.frame_id}

\* C12: a call of shutdown() that has begun returns, with the bus handle
\* closed, whatever the receive thread does -- also when it stays in a
\* handler for ever.
C12_ShutdownTerminates ==
  (cpc["c1"] = "sd_set") ~>
    (cpc["c1"] = "returned" /\ cres["c1"] = Result("shutdown", "ok", "")
       /\ bus = "closed")

\* C12 happens: shutdown() has returned while the receive thread is still
\* inside a handler.
C12_Witness ==
  /\ cpc["c1"] = "returned"
  /\ cres["c1"] = Result("shutdown", "ok", "")
  /\ bus = "closed"
  /\ \E t \in Threads : tpc[t] = "handler"

\* Every call of a handler returns or raises.
HandlersReturn == \A t \in Threads : WF_vars(RxHandler(t))

\* C13: a receive loop is back at the test of the stop flag after every poll
\* that timed out and after every frame it is done with; and if every handler
\* call ends, a live receive loop that sees the stop flag set ends, unless
\* the flag is cleared again.
C13_LoopExitsAfterStop ==
  /\ [][\A t \in Threads :
          (tpc[t] \in {"poll", "lookup", "decode", "handler"} /\ tpc'[t] # tpc[t]) =>
            \/ tpc'[t] = "loop"
            \/ tpc[t] = "poll" /\ tpc'[t] = "lookup"
            \/ tpc[t] = "lookup" /\ tpc'[t] = "decode"
            \/ tpc[t] = "decode" /\ tpc'[t] = "handler"
       ]_vars
  /\ HandlersReturn =>
       \A t \in Threads :
         (stop /\ Alive(tpc[t])) ~> (~Alive(tpc[t]) \/ ~stop)

\* C13 happens: a receive loop that handled a frame has ended with the stop
\* flag set.
C13_Witness ==
  /\ stop
  /\ \E t \in Threads : tpc[t] = "done"
  /\ \E i \in DOMAIN log : log[i].kind = "handled"

\* The values fit the raw fields of the message's signals.
Fits(msg_def, values) ==
  \A sig \in msg_def.signals : ScaledToRaw(sig, values[sig]) \in 0..MaxRaw

\* C21: after encode, for a binding with an empty map: a frame exists only if
\* the payload's keys are exactly the signals of the message (and the values
\* fit), and its data is the encoding of the payload itself; any other
\* payload ended in the encode error, with no frame. For a binding with a
\* map: a payload lacking a mapped name ended in the missing-field error;
\* else the mapped values alone decide, whatever other keys the payload has.
C21_EncodePassesValues ==
  kpc # "start" =>
    LET m == Dbc[kenc.message]
        pairs == FieldPairs(kenc.fields)
        mapped == [sig \in {q[2] : q \in pairs} |->
                     kpayload[(CHOOSE q \in pairs : q[2] = sig)[1]]]
    IN IF kenc.fields = << >>
       THEN IF DOMAIN kpayload = m.signals /\ Fits(m, kpayload)
            THEN /\ kpc \in {"encoded", "decoded"}
                 /\ kframe.data = [sig \in m.signals |-> ScaledToRaw(sig, kpayload[sig])]
            ELSE kpc = "EncodeError" /\ kframe = NoFrame
       ELSE IF ~({q[1] : q \in pairs} \subseteq DOMAIN kpayload)
            THEN kpc = "MissingField" /\ kframe = NoFrame
            ELSE IF DOMAIN mapped = m.signals /\ Fits(m, mapped)
            THEN /\ kpc \in {"encoded", "decoded"}
                 /\ kframe.data = [sig \in m.signals |-> ScaledToRaw(sig, mapped[sig])]
            ELSE kpc = "EncodeError" /\ kframe = NoFrame

\* C21 happens: a payload that names every signal of the message and one
\* more key was given to a binding with an empty map, and encode raised.
C21_Witness ==
  /\ kpc = "EncodeError"
  /\ kenc.key = "raw_status"
  /\ DOMAIN kpayload = {"motor_temp_C", "speed", "note"}
  /\ kpayload["motor_temp_C"] = 2 /\ kpayload["speed"] = 1
  /\ kframe = NoFrame

\* The handler invocations the log holds.
Invocations(l) == {i \in DOMAIN l : l[i].kind = "handled"}

\* C22: a receive loop that decodes a well-formed frame invokes a handler
\* once: the log grows by one invocation, that of the binding registered for
\* the frame's id, with the frame's signals decoded and renamed by that
\* binding's map. No other step invokes a handler, so the invocations never
\* outnumber the frames received.
C22_HandlerInvokedOnce ==
  [][/\ \A t \in Threads :
          (tpc[t] = "decode" /\ tpc'[t] # "decode" /\ WellFormed(tmsg[t])) =>
            LET binding == RxConfigOf(rx_bindings[tmsg[t].id])
                msg_def == Dbc[binding.message]
                e == log'[Len(log')]
            IN /\ Len(log') = Len(log) + 1
               /\ SubSeq(log', 1, Len(log)) = log
               /\ e.kind = "handled" /\ e.id = tmsg[t].id /\ e.key = binding.key
               /\ msg_def.frame_id = tmsg[t].id
               /\ IF binding.fields = << >>
                  THEN e.payload = [sig \in msg_def.signals |->
                                      RawToScaled(sig, tmsg[t].data[sig])]
                  ELSE /\ DOMAIN e.payload = {q[2] : q \in FieldPairs(binding.fields)}
                       /\ \A q \in FieldPairs(binding.fields) :
                            e.payload[q[2]] = RawToScaled(q[1], tmsg[t].data[q[1]])
     /\ (Cardinality(Invocations(log')) # Cardinality(Invocations(log))) =>
          \E t \in Threads : tpc[t] = "decode" /\ tpc'[t] = "handler"
     /\ Cardinality(Invocations(log')) <= nframes'
    ]_vars

\* C22 happens: the handler of binding `status` was given the temperature of
\* a received frame under its friendly name, and the loop went on.
C22_Witness ==
  /\ \E i \in DOMAIN log :
       /\ log[i].kind = "handled" /\ log[i].key = "status"
       /\ log[i].payload = [celsius |-> 2]
  /\ \E t \in Threads : tpc[t] = "loop"

\* The file of the call can be read as YAML.
FileReadable == lpath \in Disk /\ lfile.state \in {"readable", "empty"}

\* The 'buses' entries the file of the call holds.
FileEntries == Get(lfile.doc, "buses", << >>)

\* The entry has the three keys every channel needs.
EntryComplete(e) == {"name", "interface", "dbc_file"} \subseteq DOMAIN e

LoadErrors == {"FileNotFoundError", "PermissionError", "YAMLError", "ValueError"}

\* C23: a load of a file that cannot be read raises at once; a round of the
\* loop over the channel entries that meets an entry without name, interface
\* or dbc_file raises ValueError; a raise returns no BridgeConfig, and a
\* BridgeConfig is returned only for a readable file whose entries all have
\* the three keys.
C23_LoadRejectsIncomplete ==
  [][/\ (lpc = "start" /\ ~FileReadable) =>
          /\ lpc' = "failed"
          /\ lres'.err \in LoadErrors \ {"ValueError"}
     /\ (lpc = "buses" /\ lidx <= Len(FileEntries)
           /\ ~EntryComplete(FileEntries[lidx])) =>
          /\ lpc' = "failed"
          /\ lres'.err = "ValueError"
     /\ (lpc' = "failed") => (lres'.buses = << >> /\ lres'.path = << >>)
     /\ (lpc' = "returned") =>
          /\ FileReadable
          /\ \A i \in DOMAIN FileEntries : EntryComplete(FileEntries[i])
    ]_vars

\* C23 happens: the first entry of the file was accepted, the second has no
\* dbc_file, and the load raised.
C23_Witness ==
  /\ lpc = "failed" /\ lres.err = "ValueError"
  /\ Len(lbuses) = 1 /\ lidx = 2
  /\ DOMAIN FileEntries[2] = {"name", "interface"}
  /\ lres.buses = << >>

\* C24: a load returns a BridgeConfig only for a file whose top level has a
\* channel list.
C24_NoChannelListFails ==
  lpc = "returned" => "buses" \in DOMAIN lraw

\* C25: a round of the loop over the channel entries, for an entry with the
\* three keys: if an outbound spec has no dbc_message the load raises
\* ValueError; else the BusConfig added has one binding per spec, each
\* outbound one with the dbc_message of its spec, each inbound one with the
\* dbc_message of its spec or, without one, with its own key.
C25_MessageNameDefaults ==
  [][(lpc = "buses" /\ lidx <= Len(FileEntries) /\ EntryComplete(FileEntries[lidx])) =>
       LET tx == Get(FileEntries[lidx], "tx_topics", EmptyMap)
           rx == Get(FileEntries[lidx], "rx_frames", EmptyMap)
           b == lbuses'[Len(lbuses')]
       IN IF \E k \in DOMAIN tx : "dbc_message" \notin DOMAIN tx[k]
          THEN lpc' = "failed" /\ lres'.err = "ValueError" /\ lres'.buses = << >>
          ELSE /\ Len(lbuses') = Len(lbuses) + 1
               /\ DOMAIN b.tx_bindings = DOMAIN tx
               /\ \A k \in DOMAIN tx : b.tx_bindings[k].message = tx[k].dbc_message
               /\ DOMAIN b.rx_bindings = DOMAIN rx
               /\ \A k \in DOMAIN rx :
                    b.rx_bindings[k].message =
                      IF "dbc_message" \in DOMAIN rx[k] THEN rx[k].dbc_message ELSE k
    ]_vars

\* C25 happens: the BridgeConfig returned has an inbound binding named by its
\* key, its spec naming no message, beside an outbound one named by its spec.
C25_Witness ==
  /\ lpc = "returned"
  /\ \E i \in DOMAIN lres.buses :
       /\ "Status1" \in DOMAIN lres.buses[i].rx_bindings
       /\ "cmd_topic" \in DOMAIN lres.buses[i].tx_bindings
       /\ "dbc_message" \notin DOMAIN FileEntries[i].rx_frames["Status1"]
       /\ lres.buses[i].rx_bindings["Status1"].message = "Status1"
       /\ lres.buses[i].tx_bindings["cmd_topic"].message = "Cmd1"

\* The keys of the mapping outside S, each with its value.
Others(md, d, S) ==
  /\ DOMAIN md = DOMAIN d \ S
  /\ \A k \in DOMAIN md : md[k] = d[k]

\* C26: in a BridgeConfig returned, the metadata of every channel is the
\* channel entry's keys outside the nine the loader reads, each with the
\* entry's value; the metadata of every binding is its spec's keys other
\* than dbc_message and fields, each with the spec's value.
C26_UnknownKeysKept ==
  lpc = "returned" =>
    /\ Len(lres.buses) = Len(FileEntries)
    /\ \A i \in DOMAIN lres.buses :
         LET e == FileEntries[i]
             b == lres.buses[i]
             tx == Get(e, "tx_topics", EmptyMap)
             rx == Get(e, "rx_frames", EmptyMap)
         IN /\ Others(b.metadata, e,
                      {"name", "interface", "dbc_file", "bitrate", "fd", "dbitrate",
                       "filters", "tx_topics", "rx_frames"})
            /\ \A k \in DOMAIN tx :
                 Others(b.tx_bindings[k].metadata, tx[k], {"dbc_message", "fields"})
            /\ \A k \in DOMAIN rx :
                 Others(b.rx_bindings[k].metadata, rx[k], {"dbc_message", "fields"})

\* C26 happens: a BridgeConfig was returned for an entry with two keys the
\* loader does not know and a bit rate, with the topic of a binding kept.
C26_Witness ==
  /\ lpc = "returned"
  /\ \E i, j \in DOMAIN lres.buses :
       /\ lres.buses[i].metadata = [vendor |-> "acme", termination |-> "on"]
       /\ lres.buses[i].tx_bindings["cmd_topic"].metadata = [topic |-> "/cmd"]
       /\ lres.buses[i].rx_bindings["Status1"].metadata = [topic |-> "/status"]
       /\ "bitrate" \in DOMAIN FileEntries[j]
       /\ lres.buses[j].metadata = EmptyMap

\* C27: every BusConfig of a BridgeConfig returned has a name and an
\* interface that are not empty and a dbc_file that exists.
C27_LoadedBusesValid ==
  lpc = "returned" =>
    \A i \in DOMAIN lres.buses :
      /\ lres.buses[i].name # ""
      /\ lres.buses[i].interface # ""
      /\ lres.buses[i].dbc_file \in Disk

\* What the claim names of a channel: its registries, stop flag, receive
\* thread and bus handle, as the instance reads them.
ChannelView(ch, c) ==
  [tx |-> ch.tx[ch.ref[c]], rx |-> ch.rx[ch.ref[c]], stop |-> ch.stop[ch.ref[c]],
   bus |-> ch.bus[ch.ref[c]], rx_thread |-> ch.cur[c], loops |-> ch.live[c]]

\* C28: every step is an operation on one channel (a call of register, start,
\* send or shutdown, a received frame handled or failing to decode, a loop
\* ending) and leaves the registries, stop flag, receive thread and bus
\* handle of every other channel as they were.
C28_ChannelsIndependent ==
  [][\E c \in Channels :
       \A other \in Channels \ {c} :
         /\ ChannelView(chan', other) = ChannelView(chan, other)
         /\ chan'.sent[other] = chan.sent[other]
         /\ chan'.seen[other] = chan.seen[other]
    ]_vars

\* C28 happens: one channel was shut down with its loop still running after
\* a decode failure, while the other is registered, running and open.
C28_Witness ==
  /\ chan.bus["can0"] = "closed" /\ chan.stop["can0"]
  /\ chan.seen["can0"] = "decode_error" /\ chan.live["can0"] > 0
  /\ chan.bus["can1"] = "open" /\ ~chan.stop["can1"] /\ chan.cur["can1"] = "live"
  /\ chan.rx["can1"] # {}

\* C29: the statements of shutdown() run in one order. The call begins by
\* setting the stop flag; the join is entered only after that, with the flag
\* set; the bus is closed only by the last statement, which is reached only
\* with the flag set, either from the test that found no thread recorded or
\* after a join that returned, because the thread had ended or because the
\* timeout passed.
C29_ShutdownOrder ==
  [][LET was == cpc["c1"]
         now == cpc'["c1"]
     IN /\ (now = "sd_check" /\ was # now) => (was = "sd_set" /\ stop')
        /\ (now = "sd_join" /\ was # now) => (was = "sd_check" /\ stop)
        /\ (now = "sd_clear" /\ was # now) =>
             (was = "sd_join" /\ stop /\ JoinReturns(tpc[rx_thread]))
        /\ (now = "sd_close" /\ was # now) =>
             /\ stop
             /\ \/ was = "sd_check" /\ rx_thread = 0
                \/ was = "sd_clear"
        /\ (bus = "open" /\ bus' # "open") => (was = "sd_close" /\ stop)
    ]_vars

\* C29 happens: the stop flag is set, the join has returned because the
\* receive thread ended, and the bus, still open, is about to be closed.
C29_Witness ==
  /\ cpc["c1"] = "sd_close"
  /\ stop /\ rx_thread = 0 /\ bus = "open"
  /\ \E t \in Threads : tpc[t] = "done"

\* C30: a service on which start() has not yet created a receive thread
\* holds no open bus handle.
C30_OpenOnlyAfterStart ==
  nthreads = 0 => bus # "open"

\* The registry entry under the id names a whole binding of that id.
Complete(rx, id) ==
  \E b \in RxConfigs : b.key = rx[id] /\ Dbc[b.message].frame_id = id

\* C31: while a receive loop runs, a lookup that comes after the
\* registration of the frame's id has completed finds the binding, whole,
\* and goes on to decode; a lookup that comes before it drops the frame
\* without an error record. A registration or a send changes nothing a loop
\* holds, every registry entry is whole at every moment, and no loop ends
\* (nobody sets the stop flag).
C31_RegisterWhileRunning ==
  [][/\ \A t \in Threads :
          /\ (tpc[t] = "lookup" /\ tpc'[t] # "lookup") =>
               IF tmsg[t].id \in DOMAIN rx_bindings
               THEN /\ tpc'[t] = "decode"
                    /\ tentry'[t] = rx_bindings[tmsg[t].id]
                    /\ Complete(rx_bindings, tmsg[t].id)
                    /\ log' = log
               ELSE tpc'[t] = "loop" /\ log' = log
          /\ (Alive(tpc[t]) \/ tpc[t] = "created") => Alive(tpc'[t])
     /\ \A id \in DOMAIN rx_bindings' : Complete(rx_bindings', id)
     /\ (cpc'["c1"] # cpc["c1"]) =>
          UNCHANGED <<tmsg, tentry, log, notifier, nframes>>
    ]_vars

\* C31 happens: the client's registration has just returned and a running
\* loop, holding a frame of that id, has found the binding.
C31_Witness ==
  /\ cpc["c1"] = "returned" /\ cres["c1"] = Result("register_rx", "ok", "")
  /\ \E t \in Threads : tpc[t] = "decode" /\ tentry[t] = "status" /\ tmsg[t].id = 16

\* C31 as stated: a frame a loop dequeued while its id had no binding is
\* dropped -- its id has no binding until the loop is back at its head.
C31_EarlierFramesIgnored ==
  [][\A t \in Threads :
       (tpc[t] = "lookup" /\ tmsg[t].id \notin DOMAIN rx_bindings) =>
         /\ tpc'[t] \in {"lookup", "loop"}
         /\ tpc'[t] = "lookup" => tmsg[t].id \notin DOMAIN rx_bindings'
    ]_vars

\* C32: at most one handler invocation of the channel is under way.
C32_HandlersOneAtATime ==
  Cardinality({t \in Threads : tpc[t] = "handler"}) <= 1

\* C33: a handler call that ends, by returning or by raising, leaves its
\* receive loop at the head of the loop, alive; the stop flag, the bus
\* handle, the recorded thread, the registries and the notifiers are as
\* before, and the log has at most gained the record of the exception.
C33_HandlerErrorCaught ==
  [][\A t \in Threads :
       (tpc[t] = "handler" /\ tpc'[t] # "handler") =>
         /\ tpc'[t] = "loop"
         /\ \/ log' = log
            \/ log' = Append(log, ErrorEntry("handler_error", tmsg[t].id))
         /\ UNCHANGED <<stop, bus, rx_thread, rx_bindings, tx_bindings, notifier>>
    ]_vars

\* C33 happens: the one receive loop logged an exception of a handler and
\* afterwards handed a later frame to a handler.
C33_Witness ==
  /\ nthreads = 1
  /\ \E i, j \in DOMAIN log :
       i < j /\ log[i].kind = "handler_error" /\ log[j].kind = "handled"

\* C34: the registry holds one inbound binding per frame id. A registration
\* stores its binding under the frame id of its message, in place of the one
\* that was there, and leaves every other id as it was; the loop takes the
\* one binding the registry holds for the frame's id at the lookup and
\* invokes that binding's handler once, so the handler invocations never
\* outnumber the frames received.
C34_LaterBindingReplaces ==
  [][/\ \A b \in CodecRxConfigs :
          RegisterRx("c1", b) =>
            LET id == Dbc[b.message].frame_id
            IN /\ rx_bindings'[id] = b.key
               /\ DOMAIN rx_bindings' = DOMAIN rx_bindings \cup {id}
               /\ \A o \in DOMAIN rx_bindings \ {id} : rx_bindings'[o] = rx_bindings[o]
     /\ \A t \in Threads :
          /\ (tpc[t] = "lookup" /\ tpc'[t] = "decode") =>
               tentry'[t] = rx_bindings[tmsg[t].id]
          /\ (tpc[t] = "decode" /\ tpc'[t] = "handler") =>
               log' = Append(log, HandledEntry(tmsg[t].id, tentry[t],
                                    Decode(RxConfigOf(tentry[t]), tmsg[t].data)))
     /\ Cardinality({i \in DOMAIN log' : log'[i].kind = "handled"}) <= nframes'
    ]_vars

\* C34 happens: two frames of one id were received; the first went to the
\* binding registered first and the second, after a binding of another key
\* was registered for the same message, to that one alone.
C34_Witness ==
  /\ nframes = 2 /\ Len(log) = 2
  /\ log[1].kind = "handled" /\ log[1].id = 16 /\ log[1].key = "status"
  /\ log[2].kind = "handled" /\ log[2].id = 16 /\ log[2].key = "status_all"
  /\ rx_bindings[16] = "status_all"

\* C35: a start() that tests the recorded thread while it is alive returns
\* there: it creates no thread, leaves the stop flag as it is, set or not,
\* and changes nothing else of the channel.
C35_StartIdempotent ==
  [][\A c \in Callers :
       (/\ cpc[c] = "start_check" /\ cpc'[c] # "start_check"
        /\ rx_thread # 0 /\ Alive(tpc[rx_thread])) =>
         /\ cpc'[c] = "returned" /\ cres'[c] = Result("start", "ok", "")
         /\ UNCHANGED <<stop, rx_thread, nthreads, tpc, tmsg, tentry, notifier, bus,
                        tx_bindings, rx_bindings, log, sent>>
    ]_vars

\* C35 happens: a start() has returned while the thread an earlier start()
\* recorded runs, no second thread exists, and the stop flag another
\* client's shutdown() has set is still set.
C35_Witness ==
  /\ \E c \in Callers : cpc[c] = "returned" /\ cres[c] = Result("start", "ok", "")
  /\ nthreads = 1 /\ rx_thread = 1 /\ Alive(tpc[1])
  /\ ncalls >= 3 /\ stop

\* C36: once the construction of the bridge has failed, no bus handle a
\* worker opened is open and no receive thread a worker started runs.
C36_FailedLeavesNothingLive ==
  bpc = "failed" =>
    /\ \A i \in DOMAIN workers :
         workers[i].bus # "open" /\ workers[i].rx \in {"none", "done"}
    /\ \A i \in DOMAIN orphans : orphans[i].bus # "open"

\* The fields a binding configures of which the message has none.
Lacks(binding, ros_msg) ==
  {binding.fields[i][1] : i \in DOMAIN binding.fields} \ DOMAIN ros_msg.attrs

\* C37: every way _cb ends is a return: with a message that lacks a
\* configured field it returns at once, send is not entered and no frame is
\* written; an exception of send is logged and _cb returns. The stop flag,
\* the receive threads, the registries and the bus handle are as before the
\* step, so the next message is handled like the first.
C37_CallbackNeverRaises ==
  [][\A c \in Callers :
       /\ (cpc'[c] = "returned" /\ cpc[c] # "returned" /\ cres'[c].op = "cb") =>
            /\ cres'[c].err = "ok"
            /\ UNCHANGED <<stop, rx_thread, tpc, notifier, tx_bindings, rx_bindings, bus>>
            /\ \/ log' = log /\ sent' = Append(sent, cframe[c])
               \/ Len(log') = Len(log) + 1 /\ sent' = sent
       /\ \A k \in DOMAIN tx_bindings, m \in RosMsgs :
            (CbCall(c, k, m) /\ Lacks(tx_bindings[k], m) # {}) =>
              /\ cpc'[c] = "returned" /\ cres'[c].err = "ok"
              /\ sent' = sent /\ cframe' = cframe
              /\ log' = Append(log, ErrorEntry("cb_missing_field", 0))
    ]_vars

\* C37 happens: of two messages delivered to the callbacks, one ended in a
\* logged failure of send and the other in a written frame, and both calls
\* returned.
C37_Witness ==
  /\ cpc["c2"] = "returned" /\ cres["c2"] = Result("cb", "ok", "")
  /\ ncalls = 2 /\ Len(sent) = 1
  /\ Len(log) = 1 /\ log[1].kind = "cb_send_failed"

\* C37 happens as well: a message that lacks a configured field was logged
\* and nothing was sent for it.
C37_WitnessMissing ==
  /\ cpc["c2"] = "returned" /\ cres["c2"] = Result("cb", "ok", "rpm")
  /\ sent = << >> /\ log = <<ErrorEntry("cb_missing_field", 0)>>

\* C38: a cmd_* operation run while connected is false returns without a
\* call of the bus and changes neither the flag nor the bus object; the flag
\* becomes true only by a connect() that ended without an exception, and it
\* is false after a connect() that failed, after a disconnect() that ended,
\* and as long as no bus object was built.
C38_NoCommandWhileDisconnected ==
  [][/\ (~hub.connected /\ hub'.n # hub.n /\ hub'.last.op \in HubCmds) =>
          /\ hub'.calls = hub.calls /\ hub'.bus = hub.bus
          /\ ~hub'.connected /\ hub'.last.err = "ok"
     /\ (hub'.connected /\ ~hub.connected) => hub'.last = HubResult("connect", "ok")
     /\ (hub'.n # hub.n /\ hub'.last = HubResult("connect", "caught")) => ~hub'.connected
     /\ (hub'.n # hub.n /\ hub'.last = HubResult("disconnect", "ok")) => ~hub'.connected
     /\ hub'.bus = "none" => ~hub'.connected
    ]_vars

\* C38 happens: after a connect() that built the bus object and failed and
\* a disconnect(), cmd_enable returned and the bus saw no call of it.
C38_Witness ==
  /\ ~hub.connected /\ hub.bus = "object"
  /\ hub.last = HubResult("cmd_enable", "ok")
  /\ hub.calls = <<"connect", "disable", "disconnect">>

\* C39: a receive loop ends only through its finally clause, which stops
\* the notifier the loop created: the notifier runs from the creation to
\* that step and at no other step stops, a thread that has ended stays
\* ended, and no ended thread has a running notifier -- whether the loop
\* left the while on the stop flag or by an exception it does not catch.
C39_NotifierStoppedOnExit ==
  [][\A t \in Threads :
       /\ (tpc'[t] = "done" /\ tpc[t] # "done") =>
            tpc[t] = "finally" /\ notifier[t] /\ ~notifier'[t]
       /\ (notifier[t] /\ ~notifier'[t]) => (tpc[t] = "finally" /\ tpc'[t] = "done")
       /\ tpc[t] = "done" => (tpc'[t] = "done" /\ ~notifier'[t])
       /\ (tpc[t] = "handler" /\ tpc'[t] \notin {"handler", "loop"}) =>
            tpc'[t] = "finally" /\ notifier'[t]
       /\ tpc'[t] = "finally" => notifier'[t]
    ]_vars

\* C39 happens: one loop has ended on an exception of a handler while the
\* stop flag was not set, another on the stop flag, and neither notifier
\* runs.
C39_Witness ==
  /\ nthreads = 2 /\ tpc[1] = "done" /\ tpc[2] = "done"
  /\ ~notifier[1] /\ ~notifier[2]
  /\ sd_returned = 1 /\ Len(log) = 2

====
